---- MODULE Spec2Model ----
(***************************************************************************)
(* Kairos backend: the daily planning and load subsystem.                  *)
(*                                                                         *)
(* PlannerService (domain/services/planner.service.ts) over the task and   *)
(* user repositories, and the Telegram bot that drives it.  The            *)
(* specifications share the variables; among them:                         *)
(*   Spec            the load model: calculateDailyLoad / checkOverload    *)
(*                   over a task store that changes and a clock that runs  *)
(*   SpecPrioritize  prioritizeTasks and its comparator as pure functions  *)
(*                   of inputs drawn from bounded sets                     *)
(*   SpecPlan        generateDailyPlan over a store of pending tasks       *)
(*   SpecStreak      calculateStreak over completion dates                 *)
(*   SpecBatch       the batch operations of TaskRepository                *)
(*   SpecDemand      bankruptcy over a store changed through the API       *)
(*   SpecDrafts      the bot's pending drafts under interleaved handlers   *)
(***************************************************************************)
EXTENDS Integers, Sequences, FiniteSets, TLC

VARIABLES
    users,      \* users table: id -> row, or NoUser
    tasks,      \* tasks table: sequence of rows (LEFT JOINed goal score kept on the row)
    now,        \* wall clock, ms since local midnight of day 0
    ret,        \* what the last PlannerService call returned or threw
    prev,       \* the LoadStatus returned before the one in ret, if any
    calls,      \* collaborator / private-method calls made by the last call, in order
    input,      \* SpecPrioritize: the tasks array handed to prioritizeTasks
    userEnergy, \* SpecPrioritize: the userEnergy argument
    sorted,     \* SpecPrioritize: the array prioritizeTasks returned
    cmp,        \* SpecPrioritize: the last evaluation of the sort comparator
    pendingTasks, \* TelegramService.pendingTasks: user id -> draft, or NoDraft
    handlers    \* the bot's event handlers started so far, each with its position

vars == <<users, tasks, now, ret, prev, calls, input, userEnergy, sorted, cmp,
          pendingTasks, handlers>>

(***************************************************************************)
(* Bounds of the model.                                                    *)
(***************************************************************************)
MaxUsers == 2       \* user ids 1..MaxUsers
MaxRows == 2        \* rows of the tasks table in Spec and SpecPlan
MaxQuarters == 1    \* quarter-hour ticks of the clock
MaxMillis == 1      \* one-millisecond ticks of the clock
MaxLen == 3         \* length of the array handed to prioritizeTasks

UserIds == 1 .. MaxUsers

(***************************************************************************)
(* Time.                                                                   *)
(***************************************************************************)
MsPerMinute == 60000
MsPerHour == 60 * MsPerMinute
MsPerDay == 24 * MsPerHour
QuarterMs == 15 * MsPerMinute

\* the clock starts at 13:45:00.000 local time
StartOfClock == 13 * MsPerHour + 45 * MsPerMinute

(***************************************************************************)
(* Values absent in the program: null rows and undefined fields.           *)
(***************************************************************************)
NoUser == [exists |-> FALSE]
\* SQL NULL in a numeric column whose CHECK excludes 0; falsy like 0 under ||
Null == 0
NoRet == [kind |-> "none"]
NoDraft == [kind |-> "none"]
NoStatus == [kind |-> "none"]

(***************************************************************************)
(* Strings are sequences of one-character strings.  "HH:MM" work-end times *)
(* (users.work_end_time VARCHAR(5)).                                       *)
(***************************************************************************)
Str1500 == <<"1", "5", ":", "0", "0">>
Str1400 == <<"1", "4", ":", "0", "0">>
WorkEndTimes == {Str1400, Str1500}

DigitValue ==
    ("0" :> 0) @@ ("1" :> 1) @@ ("2" :> 2) @@ ("3" :> 3) @@ ("4" :> 4) @@
    ("5" :> 5) @@ ("6" :> 6) @@ ("7" :> 7) @@ ("8" :> 8) @@ ("9" :> 9)

\* String.prototype.split(sep) for a one-character separator
RECURSIVE SplitFrom(_, _, _)
SplitFrom(s, sep, acc) ==
    IF s = <<>> THEN <<acc>>
    ELSE IF Head(s) = sep THEN <<acc>> \o SplitFrom(Tail(s), sep, <<>>)
    ELSE SplitFrom(Tail(s), sep, Append(acc, Head(s)))

Split(s, sep) == SplitFrom(s, sep, <<>>)

\* Number(str) for a string of decimal digits; Number("") is 0
RECURSIVE NumberFrom(_, _)
NumberFrom(s, acc) ==
    IF s = <<>> THEN acc ELSE NumberFrom(Tail(s), 10 * acc + DigitValue[Head(s)])

ToNumber(s) == NumberFrom(s, 0)

\* new Date(now).setHours(h, m, 0, 0): the instant h:m:00.000 of now's local day
StartOfDay(t) == t - (t % MsPerDay)
SetHours(t, h, m) == StartOfDay(t) + h * MsPerHour + m * MsPerMinute

(***************************************************************************)
(* Repositories.                                                           *)
(***************************************************************************)
\* UserRepository.findById: the row, or null
FindById(userId) == IF userId \in DOMAIN users THEN users[userId] ELSE NoUser

RECURSIVE SumSeq(_)
SumSeq(s) == IF s = <<>> THEN 0 ELSE Head(s) + SumSeq(Tail(s))

IsPendingOf(userId, row) == row.userId = userId /\ row.status = "pending"

\* TaskRepository.getTotalRemainingMinutes on the table rows:
\*   SELECT COALESCE(SUM(estimated_minutes), 0) WHERE user_id = $1 AND status = 'pending'
PendingMinutesIn(rows, userId) ==
    LET P(row) == IsPendingOf(userId, row)
        pending == SelectSeq(rows, P)
    IN  SumSeq([i \in 1 .. Len(pending) |-> pending[i].estimatedMinutes])

GetTotalRemainingMinutes(userId) == PendingMinutesIn(tasks, userId)

\* TaskRepository.sumPendingEstimatedMinutes: alias
SumPendingEstimatedMinutes(userId) == GetTotalRemainingMinutes(userId)

(***************************************************************************)
(* Load model: PlannerService.calculateDailyLoad.                          *)
(***************************************************************************)
RECURSIVE Gcd(_, _)
Gcd(a, b) == IF b = 0 THEN a ELSE Gcd(b, a % b)

\* a / b of two non-negative numbers, as a fraction in lowest terms;
\* den = 0 is IEEE Infinity
Quotient(a, b) == LET g == Gcd(a, b) IN [num |-> a \div g, den |-> b \div g]
Infinity == [num |-> 1, den |-> 0]
Zero == [num |-> 0, den |-> 1]

\* remainingMinutes, kept in ms: (workEndTime.getTime() - now.getTime()), clamped at 0
RemainingMsMissingClamp(user, t) ==
    LET parts == Split(user.workEndTime, ":")
    IN  SetHours(t, ToNumber(parts[1]), ToNumber(parts[2])) - t

RemainingMs(user, t) ==
    LET parts == Split(user.workEndTime, ":")
        endHour == ToNumber(parts[1])
        endMinute == ToNumber(parts[2])
        workEndTime == SetHours(t, endHour, endMinute)
        remaining == workEndTime - t
    IN  IF remaining < 0 THEN 0 ELSE remaining

\* Math.floor(remainingMinutes * 0.8) with remainingMinutes = ms / 60000.
\* The double product never falls below an integer the exact product reaches:
\* 0.8 rounds up as a double, and ms / 60000 is exact at every multiple of 75000 ms.
CapacityMinutes(remainingMs) == (remainingMs * 8) \div (10 * MsPerMinute)

IsOverloadedAtCapacity(demandMinutes, capacityMinutes) == demandMinutes >= capacityMinutes

IsOverloadedFlipped(demandMinutes, capacityMinutes) == demandMinutes < capacityMinutes

IsOverloaded(demandMinutes, capacityMinutes) == demandMinutes > capacityMinutes

OverloadRatioZeroCapacityIsZero(demandMinutes, capacityMinutes) ==
    IF capacityMinutes > 0 THEN Quotient(demandMinutes, capacityMinutes) ELSE Zero

OverloadRatio(demandMinutes, capacityMinutes) ==
    IF capacityMinutes > 0 THEN Quotient(demandMinutes, capacityMinutes)
    ELSE IF demandMinutes > 0 THEN Infinity ELSE Zero

LoadStatus(user, demandMinutes, t) ==
    LET capacityMinutes == CapacityMinutes(RemainingMs(user, t))
    IN  [kind |-> "status",
         capacityMinutes |-> capacityMinutes,
         demandMinutes |-> demandMinutes,
         isOverloaded |-> IsOverloaded(demandMinutes, capacityMinutes),
         overloadRatio |-> OverloadRatio(demandMinutes, capacityMinutes)]

\* the outcome of calculateDailyLoad(userId) at time t: what it returns or throws,
\* and the repository calls it made
CalculateDailyLoadFetchFirst(userId, t) ==
    LET user == FindById(userId)
    IN  IF user = NoUser
        THEN [ret |-> [kind |-> "error", op |-> "calculateDailyLoad", userId |-> userId,
                       at |-> t, message |-> "User not found"],
              calls |-> <<"findById", "sumPendingEstimatedMinutes">>]
        ELSE [ret |-> [kind |-> "load", op |-> "calculateDailyLoad", userId |-> userId,
                       at |-> t,
                       status |-> LoadStatus(user, SumPendingEstimatedMinutes(userId), t)],
              calls |-> <<"findById", "sumPendingEstimatedMinutes">>]

CalculateDailyLoadOutcome(userId, t) ==
    LET user == FindById(userId)
    IN  IF user = NoUser
        THEN [ret |-> [kind |-> "error", op |-> "calculateDailyLoad", userId |-> userId,
                       at |-> t, message |-> "User not found"],
              calls |-> <<"findById">>]
        ELSE [ret |-> [kind |-> "load", op |-> "calculateDailyLoad", userId |-> userId,
                       at |-> t,
                       status |-> LoadStatus(user, SumPendingEstimatedMinutes(userId), t)],
              calls |-> <<"findById", "sumPendingEstimatedMinutes">>]

\* checkOverload(userId): calculateDailyLoad, then status.isOverloaded; a throw propagates
CheckOverloadOutcome(userId, t) ==
    LET load == CalculateDailyLoadOutcome(userId, t)
    IN  IF load.ret.kind = "error"
        THEN [ret |-> [load.ret EXCEPT !.op = "checkOverload"], calls |-> load.calls]
        ELSE [ret |-> [kind |-> "bool", op |-> "checkOverload", userId |-> userId,
                       at |-> t, value |-> load.ret.status.isOverloaded],
              calls |-> load.calls]

(***************************************************************************)
(* The task store's own operations.                                        *)
(***************************************************************************)
EstimatedMinutesValues == {30, 60}

\* a row of the tasks table, with the parent goal's meta_score joined in
TaskRow(id, userId, estimatedMinutes, goalMetaScore, isFixed, requiredEnergy, priorityOverride) ==
    [id |-> id, userId |-> userId, estimatedMinutes |-> estimatedMinutes,
     status |-> "pending", goalMetaScore |-> goalMetaScore, isFixed |-> isFixed,
     requiredEnergy |-> requiredEnergy, priorityOverride |-> priorityOverride,
     scheduledStartTime |-> Null, completedAt |-> Null]

\* TaskRepository.create with the defaults the bot's task creation passes:
\* status 'pending', priority_override 3, is_fixed false, required_energy 3
CreateTask(userId, estimatedMinutes) ==
    /\ Len(tasks) < MaxRows
    /\ userId \in DOMAIN users
    /\ users[userId] # NoUser
    /\ tasks' = Append(tasks, TaskRow(Len(tasks) + 1, userId, estimatedMinutes, 1, FALSE, 3, 3))
    /\ UNCHANGED <<pendingTasks, handlers>>
    /\ UNCHANGED <<users, now, ret, prev, calls, input, userEnergy, sorted, cmp>>

\* TaskRepository.markAsDone: UPDATE tasks SET status = 'done', completed_at = NOW()
\* WHERE id = $1 AND user_id = $2
MarkAsDone(taskId, userId) ==
    /\ taskId \in 1 .. Len(tasks)
    /\ tasks[taskId].userId = userId
    /\ tasks[taskId].status = "pending"
    /\ tasks' = [tasks EXCEPT ![taskId].status = "done", ![taskId].completedAt = now]
    /\ UNCHANGED <<pendingTasks, handlers>>
    /\ UNCHANGED <<users, now, ret, prev, calls, input, userEnergy, sorted, cmp>>

\* the values PATCH /api/tasks/:id passes on unvalidated: TaskController.updateTask
\* hands req.body to TaskRepository.update, and the column has no CHECK
UpdatedMinutesValues == {-30, 0}

\* TaskRepository.update with updates = { estimatedMinutes }:
\* UPDATE tasks SET estimated_minutes = $3 WHERE id = $1 AND user_id = $2
UpdateTask(taskId, userId, estimatedMinutes) ==
    /\ taskId \in 1 .. Len(tasks)
    /\ tasks[taskId].userId = userId
    /\ tasks' = [tasks EXCEPT ![taskId].estimatedMinutes = estimatedMinutes]
    /\ UNCHANGED <<pendingTasks, handlers>>
    /\ UNCHANGED <<users, now, ret, prev, calls, input, userEnergy, sorted, cmp>>

(***************************************************************************)
(* The clock.                                                              *)
(***************************************************************************)
TickQuarter ==
    /\ (now - StartOfClock) \div QuarterMs < MaxQuarters
    /\ now' = now + QuarterMs
    /\ UNCHANGED <<pendingTasks, handlers>>
    /\ UNCHANGED <<users, tasks, ret, prev, calls, input, userEnergy, sorted, cmp>>

TickMillis ==
    /\ now % QuarterMs < MaxMillis
    /\ now' = now + 1
    /\ UNCHANGED <<pendingTasks, handlers>>
    /\ UNCHANGED <<users, tasks, ret, prev, calls, input, userEnergy, sorted, cmp>>

(***************************************************************************)
(* Spec: the load model.                                                   *)
(***************************************************************************)
CalculateDailyLoad(userId) ==
    /\ LET out == CalculateDailyLoadOutcome(userId, now)
       IN  ret' = out.ret /\ calls' = out.calls
    /\ prev' = IF ret.kind = "load" THEN ret.status ELSE prev
    /\ UNCHANGED <<pendingTasks, handlers>>
    /\ UNCHANGED <<users, tasks, now, input, userEnergy, sorted, cmp>>

CheckOverload(userId) ==
    /\ LET out == CheckOverloadOutcome(userId, now)
       IN  ret' = out.ret /\ calls' = out.calls
    /\ prev' = IF ret.kind = "load" THEN ret.status ELSE prev
    /\ UNCHANGED <<pendingTasks, handlers>>
    /\ UNCHANGED <<users, tasks, now, input, userEnergy, sorted, cmp>>

UserRows == [exists : {TRUE}, workEndTime : WorkEndTimes, currentEnergy : {3}]

\* new Map() of the constructor, no event received yet
IdleBot ==
    /\ pendingTasks = [u \in UserIds |-> NoDraft]
    /\ handlers = <<>>

IdlePrioritize ==
    /\ input = <<>>
    /\ userEnergy = 3
    /\ sorted = <<>>
    /\ cmp = NoRet

Init ==
    /\ users \in [UserIds -> UserRows \cup {NoUser}]
    /\ tasks = <<>>
    /\ now = StartOfClock
    /\ ret = NoRet
    /\ prev = NoStatus
    /\ calls = <<>>
    /\ IdlePrioritize
    /\ IdleBot

Next ==
    \/ \E u \in UserIds, m \in EstimatedMinutesValues : CreateTask(u, m)
    \/ \E id \in 1 .. MaxRows, u \in UserIds : MarkAsDone(id, u)
    \/ TickQuarter
    \/ TickMillis
    \/ \E u \in UserIds : CalculateDailyLoad(u)
    \/ \E u \in UserIds : CheckOverload(u)

Spec == Init /\ [][Next]_vars

(***************************************************************************)
(* Priority scorer: PlannerService.prioritizeTasks.                        *)
(***************************************************************************)
Abs(x) == IF x < 0 THEN -x ELSE x

\* x || d on numbers: 0, null and undefined are falsy
OrElse(x, d) == IF x = Null THEN d ELSE x

FitWithoutAbs(energy, task) == (5 - (energy - OrElse(task.requiredEnergy, 3))) * 2

\* (5 - Math.abs(userEnergy - (a.requiredEnergy || 3))) * 2
Fit(energy, task) == (5 - Abs(energy - OrElse(task.requiredEnergy, 3))) * 2

Score(energy, task) == OrElse(task.goalMetaScore, 0) + Fit(energy, task)

CompareIgnoringFixed(a, b, energy) ==
    LET scoreDiff == Score(energy, b) - Score(energy, a)
    IN  IF scoreDiff # 0 THEN scoreDiff
        ELSE OrElse(b.priorityOverride, 3) - OrElse(a.priorityOverride, 3)

CompareWithoutTieBreak(a, b, energy) ==
    IF a.isFixed /\ ~b.isFixed THEN -1
    ELSE IF ~a.isFixed /\ b.isFixed THEN 1
    ELSE Score(energy, b) - Score(energy, a)

CompareNeverEqual(a, b, energy) ==
    IF a.isFixed /\ ~b.isFixed THEN -1
    ELSE IF ~a.isFixed /\ b.isFixed THEN 1
    ELSE LET scoreDiff == Score(energy, b) - Score(energy, a)
         IN  IF scoreDiff # 0 THEN scoreDiff
             ELSE IF OrElse(b.priorityOverride, 3) > OrElse(a.priorityOverride, 3)
                  THEN 1 ELSE -1

\* the comparator handed to tasks.sort: negative puts a first, positive puts b first
Compare(a, b, energy) ==
    IF a.isFixed /\ ~b.isFixed THEN -1
    ELSE IF ~a.isFixed /\ b.isFixed THEN 1
    ELSE LET scoreA == Score(energy, a)
             scoreB == Score(energy, b)
             scoreDiff == scoreB - scoreA
         IN  IF scoreDiff # 0 THEN scoreDiff
             ELSE OrElse(b.priorityOverride, 3) - OrElse(a.priorityOverride, 3)

\* Array.prototype.sort is stable (ES2019) and, on short arrays, a binary insertion
\* sort: each element goes after every earlier element it does not precede.
RECURSIVE InsertPosition(_, _, _, _)
InsertPosition(acc, x, j, energy) ==
    IF j > 0 /\ Compare(x, acc[j], energy) < 0
    THEN InsertPosition(acc, x, j - 1, energy)
    ELSE j

Insert(acc, x, energy) ==
    LET j == InsertPosition(acc, x, Len(acc), energy)
    IN  SubSeq(acc, 1, j) \o <<x>> \o SubSeq(acc, j + 1, Len(acc))

RECURSIVE SortFrom(_, _, _)
SortFrom(acc, rest, energy) ==
    IF rest = <<>> THEN acc
    ELSE SortFrom(Insert(acc, Head(rest), energy), Tail(rest), energy)

PrioritizeTasksLosingLast(taskList, energy) ==
    SortFrom(<<>>, SubSeq(taskList, 1, Len(taskList) - 1), energy)

PrioritizeTasks(taskList, energy) == SortFrom(<<>>, taskList, energy)

(***************************************************************************)
(* Schedule formatter and plan generation.                                 *)
(***************************************************************************)
\* TaskRepository.findAllPendingWithGoalInfo: the user's pending rows with the goal
\* joined in.  The query has no ORDER BY: the rows come in an order the database
\* picks, here the table order rearranged by perm.
PendingRows(userId) == LET P(row) == IsPendingOf(userId, row) IN SelectSeq(tasks, P)

FindAllPendingWithGoalInfo(userId, perm) ==
    LET rows == PendingRows(userId)
    IN  [i \in 1 .. Len(rows) |-> rows[perm[i]]]

\* the importance glyph: >= 8 high, >= 5 medium, else low
Icon(task) ==
    IF task.goalMetaScore >= 8 THEN "high"
    ELSE IF task.goalMetaScore >= 5 THEN "medium" ELSE "low"

\* a % b of JavaScript for b > 0: the remainder takes the sign of the dividend
Remainder(a, b) == IF a >= 0 THEN a % b ELSE -((-a) % b)

\* toLocaleTimeString([], { hour: '2-digit', minute: '2-digit' }): the hour and the
\* minute of the day, seconds and milliseconds dropped
ToLocaleTimeString(t) ==
    [hour |-> (t % MsPerDay) \div MsPerHour, minute |-> (t % MsPerHour) \div MsPerMinute]

\* the loop of formatSchedule: one block per task from the cursor on
RECURSIVE Blocks(_, _)
Blocks(taskList, currentTime) ==
    IF taskList = <<>> THEN <<>>
    ELSE LET task == Head(taskList)
             duration == OrElse(task.estimatedMinutes, 30)
             endTime == currentTime + duration * MsPerMinute
         IN  <<[id |-> task.id, startTime |-> currentTime, endTime |-> endTime,
                startStr |-> ToLocaleTimeString(currentTime),
                endStr |-> ToLocaleTimeString(endTime),
                duration |-> duration, icon |-> Icon(task)]>>
             \o Blocks(Tail(taskList), endTime)

FormatSchedule(taskList, t) ==
    LET blocks == Blocks(taskList, t)
        totalMinutes == SumSeq([i \in 1 .. Len(blocks) |-> blocks[i].duration])
        currentTime == IF blocks = <<>> THEN t ELSE blocks[Len(blocks)].endTime
    IN  [generated |-> ToLocaleTimeString(t),
         blocks |-> blocks,
         finishTime |-> currentTime,
         finishStr |-> ToLocaleTimeString(currentTime),
         totalHours |-> totalMinutes \div 60,
         totalMinutes |-> Remainder(totalMinutes, 60)]

NoPendingMessage == "No tienes tareas pendientes! Disfruta tu dia libre."

GenerateDailyPlanWithoutEmptyCheck(userId, energy, perm, t) ==
    LET fetched == FindAllPendingWithGoalInfo(userId, perm)
        sortedTasks == PrioritizeTasks(fetched, energy)
    IN  [ret |-> [kind |-> "plan", op |-> "generateDailyPlan", userId |-> userId,
                  at |-> t, schedule |-> FormatSchedule(sortedTasks, t)],
         fetched |-> fetched,
         sorted |-> sortedTasks,
         calls |-> <<"findAllPendingWithGoalInfo", "prioritizeTasks", "formatSchedule">>]

\* generateDailyPlan(userId, userEnergy) at time t: fetch, return the fixed message
\* if there is nothing pending, else prioritize and format
GenerateDailyPlanOutcome(userId, energy, perm, t) ==
    LET fetched == FindAllPendingWithGoalInfo(userId, perm)
        sortedTasks == PrioritizeTasks(fetched, energy)
    IN  IF Len(fetched) = 0
        THEN [ret |-> [kind |-> "message", op |-> "generateDailyPlan", userId |-> userId,
                       at |-> t, text |-> NoPendingMessage],
              fetched |-> fetched,
              sorted |-> <<>>,
              calls |-> <<"findAllPendingWithGoalInfo">>]
        ELSE [ret |-> [kind |-> "plan", op |-> "generateDailyPlan", userId |-> userId,
                       at |-> t, schedule |-> FormatSchedule(sortedTasks, t)],
              fetched |-> fetched,
              sorted |-> sortedTasks,
              calls |-> <<"findAllPendingWithGoalInfo", "prioritizeTasks",
                          "formatSchedule">>]

(***************************************************************************)
(* Properties of the load model (Spec).                                    *)
(***************************************************************************)
\* C1: every LoadStatus calculateDailyLoad returns has isOverloaded true exactly
\* when demandMinutes > capacityMinutes.
C1_IsOverloadedIffDemandExceedsCapacity ==
    ret.kind = "load" =>
        (ret.status.isOverloaded <=> ret.status.demandMinutes > ret.status.capacityMinutes)

\* an overloaded status at the boundary's other side: demand equal to a positive
\* capacity has been returned as not overloaded, and a greater demand as overloaded
C1_Witness ==
    /\ ret.kind = "load" /\ prev # NoStatus
    /\ prev.capacityMinutes > 0 /\ prev.demandMinutes = prev.capacityMinutes
    /\ ~prev.isOverloaded
    /\ ret.status.isOverloaded /\ ret.status.capacityMinutes > 0

\* the minute of the day a work-end time names, read off the string by hand
WorkEndMinuteOfDay(str) ==
    CASE str = Str1500 -> 15 * 60 + 0
      [] str = Str1400 -> 14 * 60 + 0

\* C2: capacityMinutes = floor(0.8 * max(0, workEndTime(today) - now in minutes)):
\* never negative, 0 at or after the work-end time, 48 with 60 minutes remaining.
C2_CapacityIsFloorOfEightyPercent ==
    ret.kind = "load" =>
        LET endOfWork == StartOfDay(ret.at)
                           + WorkEndMinuteOfDay(users[ret.userId].workEndTime) * MsPerMinute
            remainingMs == IF endOfWork > ret.at THEN endOfWork - ret.at ELSE 0
            capacity == ret.status.capacityMinutes
        IN  /\ capacity >= 0
            /\ capacity * 10 * MsPerMinute <= 8 * remainingMs
            /\ 8 * remainingMs < (capacity + 1) * 10 * MsPerMinute
            /\ (ret.at >= endOfWork => capacity = 0)
            /\ (remainingMs = 60 * MsPerMinute => capacity = 48)

\* 14:00:00.000 with a 15:00 work end: 60 minutes remain and capacity is 48
C2_Witness ==
    /\ ret.kind = "load"
    /\ users[ret.userId].workEndTime = Str1500
    /\ ret.at = 14 * MsPerHour
    /\ ret.status.capacityMinutes = 48

\* C3: overloadRatio is demand / capacity when capacity > 0, infinite when capacity
\* is 0 and demand > 0, and 0 when both are 0; capacity 48 and demand 120 give 2.5.
C3_OverloadRatio ==
    ret.kind = "load" =>
        LET s == ret.status
            r == s.overloadRatio
        IN  /\ s.capacityMinutes > 0 =>
                   r.den > 0 /\ r.num * s.capacityMinutes = s.demandMinutes * r.den
            /\ (s.capacityMinutes = 0 /\ s.demandMinutes > 0) => (r.den = 0 /\ r.num > 0)
            /\ (s.capacityMinutes = 0 /\ s.demandMinutes = 0) => (r.den > 0 /\ r.num = 0)
            /\ (s.capacityMinutes = 48 /\ s.demandMinutes = 120) => r = [num |-> 5, den |-> 2]

\* capacity 48, demand 120: ratio 5/2, after a call that returned the infinite ratio
C3_Witness ==
    /\ ret.kind = "load"
    /\ ret.status.capacityMinutes = 48 /\ ret.status.demandMinutes = 120
    /\ ret.status.overloadRatio = [num |-> 5, den |-> 2]

\* C4: for a fixed capacity, isOverloaded is monotonic in demand: once overloaded at
\* demand d, overloaded at every demand d' >= d.
C4_OverloadMonotonicInDemand ==
    (/\ ret.kind = "load" /\ prev # NoStatus
     /\ prev.capacityMinutes = ret.status.capacityMinutes
     /\ prev.isOverloaded
     /\ ret.status.demandMinutes >= prev.demandMinutes)
        => ret.status.isOverloaded

\* two consecutive results at one capacity, the second with strictly more demand,
\* both overloaded
C4_Witness ==
    /\ ret.kind = "load" /\ prev # NoStatus
    /\ prev.capacityMinutes = ret.status.capacityMinutes
    /\ prev.isOverloaded
    /\ ret.status.demandMinutes > prev.demandMinutes
    /\ ret.status.isOverloaded

\* C5: for a user that does not exist, calculateDailyLoad and checkOverload throw
\* 'User not found', return no LoadStatus and never read the pending demand.
C5_UnknownUserFailsBeforeDemandIsRead ==
    (ret.kind # "none" /\ users[ret.userId] = NoUser) =>
        /\ ret.kind = "error"
        /\ ret.message = "User not found"
        /\ \A i \in 1 .. Len(calls) : calls[i] # "sumPendingEstimatedMinutes"

\* checkOverload has thrown for a missing user while another user's tasks are pending
C5_Witness ==
    /\ ret.kind = "error" /\ ret.op = "checkOverload"
    /\ users[ret.userId] = NoUser
    /\ \E i \in 1 .. Len(tasks) : tasks[i].status = "pending"

(***************************************************************************)
(* SpecPrioritize: prioritizeTasks and its comparator on drawn inputs.     *)
(***************************************************************************)
EnergyLevels == 1 .. 5

\* goals.meta_score is 1..10; the repository maps a missing goal to 0
SortMetaScores == {5, 7}
SortEnergies == {3, 4}
MetaScores == {0, 5, 7}
\* tasks.priority_override is NULL or 1..5
Priorities == {Null, 3, 5}

SortAttributes == SortMetaScores \X BOOLEAN \X SortEnergies \X Priorities
\* every required energy, for the comparator
ComparedAttributes == MetaScores \X BOOLEAN \X EnergyLevels \X Priorities

\* a task array with ids 1..n in array order
ArrayOf(n, f) == [i \in 1 .. n |-> TaskRow(i, 1, 30, f[i][1], f[i][2], f[i][3], f[i][4])]

\* prioritizeTasks(input, userEnergy)
Prioritize ==
    /\ ret = NoRet
    /\ cmp = NoRet
    /\ sorted' = PrioritizeTasks(input, userEnergy)
    /\ calls' = <<"prioritizeTasks">>
    /\ ret' = [kind |-> "sorted"]
    /\ UNCHANGED <<pendingTasks, handlers>>
    /\ UNCHANGED <<users, tasks, now, prev, input, userEnergy, cmp>>

\* one evaluation of the comparator, with the fits and scores it computed
EvaluateComparator(a, b) ==
    /\ ret = NoRet
    /\ cmp = NoRet
    /\ cmp' = IF a.isFixed # b.isFixed
              THEN [kind |-> "fixed", a |-> a, b |-> b,
                    result |-> Compare(a, b, userEnergy)]
              ELSE [kind |-> "scored", a |-> a, b |-> b,
                    fitA |-> Fit(userEnergy, a), fitB |-> Fit(userEnergy, b),
                    scoreA |-> Score(userEnergy, a), scoreB |-> Score(userEnergy, b),
                    result |-> Compare(a, b, userEnergy)]
    /\ UNCHANGED <<pendingTasks, handlers>>
    /\ UNCHANGED <<users, tasks, now, ret, prev, calls, input, userEnergy, sorted>>

InitPrioritize ==
    /\ users = [u \in UserIds |-> NoUser]
    /\ tasks = <<>>
    /\ now = StartOfClock
    /\ ret = NoRet
    /\ prev = NoStatus
    /\ calls = <<>>
    /\ \/ \E n \in 0 .. MaxLen : \E f \in [1 .. n -> SortAttributes] : input = ArrayOf(n, f)
       \/ \E f \in [1 .. 2 -> ComparedAttributes] : input = ArrayOf(2, f)
    /\ userEnergy \in EnergyLevels
    /\ sorted = <<>>
    /\ cmp = NoRet
    /\ IdleBot

NextPrioritize ==
    \/ Prioritize
    \/ Len(input) = 2 /\ EvaluateComparator(input[1], input[2])

SpecPrioritize == InitPrioritize /\ [][NextPrioritize]_vars

(***************************************************************************)
(* Properties of the priority scorer (SpecPrioritize).                     *)
(***************************************************************************)
PositionOf(id) == CHOOSE k \in 1 .. Len(sorted) : sorted[k].id = id

\* C6: in the order prioritizeTasks produces every fixed task precedes every
\* non-fixed task; the first task is fixed iff some input task is fixed.
C6_FixedTasksFirst ==
    ret.kind = "sorted" =>
        /\ Len(sorted) = Len(input)
        /\ \A i, j \in 1 .. Len(sorted) :
               (sorted[i].isFixed /\ ~sorted[j].isFixed) => i < j
        /\ Len(input) > 0 =>
               (sorted[1].isFixed <=> \E k \in 1 .. Len(input) : input[k].isFixed)

\* a fixed task of lower score, last in the input, has been moved to the front of
\* a non-fixed task of higher score
C6_Witness ==
    /\ ret.kind = "sorted" /\ Len(input) = 3
    /\ input[3].isFixed /\ ~input[1].isFixed /\ ~input[2].isFixed
    /\ input[3].goalMetaScore < input[1].goalMetaScore
    /\ input[3].requiredEnergy = input[1].requiredEnergy
    /\ sorted[1].id = 3

\* score and effective priority as the specification states them
SpecScore(task) ==
    task.goalMetaScore
      + (5 - (IF userEnergy >= task.requiredEnergy
              THEN userEnergy - task.requiredEnergy
              ELSE task.requiredEnergy - userEnergy)) * 2

SpecPriority(task) == IF task.priorityOverride = Null THEN 3 ELSE task.priorityOverride

\* C7: among tasks of the same fixed status the output is ordered by score
\* descending, then by priorityOverride (default 3) descending.
C7_ScoreThenPriorityDescending ==
    ret.kind = "sorted" =>
        \A i \in 1 .. Len(sorted) - 1 :
            sorted[i].isFixed = sorted[i + 1].isFixed =>
                \/ SpecScore(sorted[i]) > SpecScore(sorted[i + 1])
                \/ /\ SpecScore(sorted[i]) = SpecScore(sorted[i + 1])
                   /\ SpecPriority(sorted[i]) >= SpecPriority(sorted[i + 1])

\* three non-fixed tasks: the last has the highest score, and the first two tie on
\* score (from different meta scores) and differ in priority, lower priority first
C7_Witness ==
    /\ ret.kind = "sorted" /\ Len(input) = 3
    /\ \A k \in 1 .. 3 : ~input[k].isFixed
    /\ SpecScore(input[3]) > SpecScore(input[1])
    /\ SpecScore(input[1]) = SpecScore(input[2])
    /\ input[1].goalMetaScore # input[2].goalMetaScore
    /\ SpecPriority(input[1]) < SpecPriority(input[2])
    /\ <<sorted[1].id, sorted[2].id, sorted[3].id>> = <<3, 2, 1>>

SameRank(a, b) ==
    /\ a.isFixed = b.isFixed
    /\ SpecScore(a) = SpecScore(b)
    /\ SpecPriority(a) = SpecPriority(b)

\* C8: prioritizeTasks is stable: tasks that compare equal keep their input order.
C8_StableSort ==
    ret.kind = "sorted" =>
        \A i, j \in 1 .. Len(input) :
            (i < j /\ SameRank(input[i], input[j])) =>
                PositionOf(input[i].id) < PositionOf(input[j].id)

\* two equal-rank tasks (one with a NULL priority, one with 3) separated in the input
\* by a task that sorts before both
C8_Witness ==
    /\ ret.kind = "sorted" /\ Len(input) = 3
    /\ SameRank(input[1], input[3])
    /\ input[1].priorityOverride = Null /\ input[3].priorityOverride = 3
    /\ <<sorted[1].id, sorted[2].id, sorted[3].id>> = <<2, 1, 3>>

\* C9: for userEnergy and requiredEnergy in 1..5 the fit lies in 2..10, is 10 iff
\* the energies are equal, and strictly decreases as their distance grows.
C9_FitRange ==
    cmp.kind = "scored" =>
        LET distA == IF userEnergy >= cmp.a.requiredEnergy
                     THEN userEnergy - cmp.a.requiredEnergy
                     ELSE cmp.a.requiredEnergy - userEnergy
            distB == IF userEnergy >= cmp.b.requiredEnergy
                     THEN userEnergy - cmp.b.requiredEnergy
                     ELSE cmp.b.requiredEnergy - userEnergy
        IN  /\ cmp.fitA \in 2 .. 10
            /\ cmp.fitB \in 2 .. 10
            /\ cmp.fitA = 10 <=> cmp.a.requiredEnergy = userEnergy
            /\ distA < distB => cmp.fitA > cmp.fitB
            /\ distA = distB => cmp.fitA = cmp.fitB

\* the extreme fits in one comparison: distance 4 (fit 2) against distance 0 (fit 10)
C9_Witness ==
    /\ cmp.kind = "scored"
    /\ userEnergy = 1 /\ cmp.a.requiredEnergy = 5 /\ cmp.b.requiredEnergy = 1
    /\ cmp.fitA = 2 /\ cmp.fitB = 10

(***************************************************************************)
(* SpecPlan: one generateDailyPlan request against a store built up by     *)
(* task creation and completion.                                           *)
(***************************************************************************)
PlanMetaScores == {3, 8}

\* TaskRepository.create with the fields the REST API passes
CreateTaskWith(userId, estimatedMinutes, goalMetaScore, isFixed) ==
    /\ ret = NoRet
    /\ Len(tasks) < MaxRows
    /\ users[userId] # NoUser
    /\ tasks' = Append(tasks, TaskRow(Len(tasks) + 1, userId, estimatedMinutes,
                                      goalMetaScore, isFixed, 3, 3))
    /\ UNCHANGED <<pendingTasks, handlers>>
    /\ UNCHANGED <<users, now, ret, prev, calls, input, userEnergy, sorted, cmp>>

GenerateDailyPlan(userId, energy, perm) ==
    /\ ret = NoRet
    /\ LET out == GenerateDailyPlanOutcome(userId, energy, perm, now)
       IN  /\ ret' = out.ret
           /\ calls' = out.calls
           /\ input' = out.fetched
           /\ sorted' = out.sorted
    /\ userEnergy' = energy
    /\ UNCHANGED <<pendingTasks, handlers>>
    /\ UNCHANGED <<users, tasks, now, prev, cmp>>

InitPlan == Init

NextPlan ==
    \/ \E u \in UserIds, m \in EstimatedMinutesValues, g \in PlanMetaScores, f \in BOOLEAN :
           CreateTaskWith(u, m, g, f)
    \/ \E id \in 1 .. MaxRows, u \in UserIds : ret = NoRet /\ MarkAsDone(id, u)
    \/ ret = NoRet /\ TickQuarter
    \/ ret = NoRet /\ TickMillis
    \/ \E u \in UserIds, e \in EnergyLevels :
           \E perm \in Permutations(1 .. Len(PendingRows(u))) : GenerateDailyPlan(u, e, perm)

SpecPlan == InitPlan /\ [][NextPlan]_vars

(***************************************************************************)
(* Properties of plan generation (SpecPlan).                               *)
(***************************************************************************)
\* C10: with no pending task generateDailyPlan returns the fixed message and calls
\* neither prioritizeTasks nor formatSchedule; with at least one pending task it
\* calls prioritizeTasks and then formatSchedule.
C10_EmptyPlanShortCircuits ==
    ret.kind # "none" =>
        LET pending == {i \in 1 .. Len(tasks) :
                            tasks[i].userId = ret.userId /\ tasks[i].status = "pending"}
        IN  IF pending = {}
            THEN /\ ret.kind = "message"
                 /\ ret.text = NoPendingMessage
                 /\ \A i \in 1 .. Len(calls) :
                        calls[i] \notin {"prioritizeTasks", "formatSchedule"}
            ELSE /\ ret.kind = "plan"
                 /\ \E i, j \in 1 .. Len(calls) :
                        /\ i < j
                        /\ calls[i] = "prioritizeTasks"
                        /\ calls[j] = "formatSchedule"
                 /\ Cardinality({i \in 1 .. Len(calls) : calls[i] = "prioritizeTasks"}) = 1
                 /\ Cardinality({i \in 1 .. Len(calls) : calls[i] = "formatSchedule"}) = 1

\* the message has been returned to a user whose only task is done while another
\* user still has a pending task
C10_Witness ==
    /\ ret.kind = "message"
    /\ \E i \in 1 .. Len(tasks) : tasks[i].userId = ret.userId /\ tasks[i].status = "done"
    /\ \E i \in 1 .. Len(tasks) : tasks[i].userId # ret.userId /\ tasks[i].status = "pending"
    /\ calls = <<"findAllPendingWithGoalInfo">>

(***************************************************************************)
(* SpecSchedule: one generateDailyPlan request against a store in which    *)
(* tasks are created and their estimates edited.                           *)
(***************************************************************************)
InitSchedule == Init

NextSchedule ==
    \/ \E u \in UserIds, m \in EstimatedMinutesValues, g \in PlanMetaScores, f \in BOOLEAN :
           CreateTaskWith(u, m, g, f)
    \/ \E id \in 1 .. MaxRows, u \in UserIds, m \in UpdatedMinutesValues :
           ret = NoRet /\ UpdateTask(id, u, m)
    \/ ret = NoRet /\ TickQuarter
    \/ \E u \in UserIds, e \in EnergyLevels :
           \E perm \in Permutations(1 .. Len(PendingRows(u))) : GenerateDailyPlan(u, e, perm)

SpecSchedule == InitSchedule /\ [][NextSchedule]_vars

(***************************************************************************)
(* Properties of the schedule (SpecSchedule).                              *)
(***************************************************************************)
\* C11: formatSchedule lays the blocks out contiguously: the first block starts at
\* 'now', each block ends exactly estimatedMinutes after its start, each further
\* block starts at the end of the one before it, and no two blocks overlap.
C11_BlocksContiguous ==
    ret.kind = "plan" =>
        LET blocks == ret.schedule.blocks
        IN  /\ blocks[1].startTime = ret.at
            /\ \A i \in 1 .. Len(blocks) :
                   blocks[i].endTime
                       = blocks[i].startTime + tasks[blocks[i].id].estimatedMinutes * MsPerMinute
            /\ \A i \in 1 .. Len(blocks) - 1 : blocks[i + 1].startTime = blocks[i].endTime
            /\ \A i, j \in 1 .. Len(blocks) :
                   i < j => /\ blocks[i].startTime <= blocks[i].endTime
                            /\ blocks[i].endTime <= blocks[j].startTime

\* C12: the summary reports the finish time now + the sum of the block durations,
\* and the total as floor(total / 60) hours and total mod 60 minutes, the minutes
\* always in 0 .. 59.
C12_SummaryTotals ==
    ret.kind = "plan" =>
        LET blocks == ret.schedule.blocks
            total == SumSeq([i \in 1 .. Len(blocks) |-> blocks[i].duration])
        IN  /\ ret.schedule.finishTime = ret.at + total * MsPerMinute
            /\ ret.schedule.totalHours * 60 <= total
            /\ total < (ret.schedule.totalHours + 1) * 60
            /\ ret.schedule.totalMinutes \in 0 .. 59
            /\ ret.schedule.totalHours * 60 + ret.schedule.totalMinutes = total

(***************************************************************************)
(* Bankruptcy resolver: PlannerService.executeBankruptcy and the two bulk  *)
(* updates of the task repository it calls.                                *)
(***************************************************************************)
\* the rows the CTE tasks_to_archive selects
TasksToArchive(userId, threshold) ==
    {i \in 1 .. Len(tasks) : /\ tasks[i].userId = userId
                             /\ tasks[i].status = "pending"
                             /\ tasks[i].goalMetaScore < threshold}

ArchiveAllPendingTasks(userId, threshold) ==
    LET ids == {i \in 1 .. Len(tasks) :
                    tasks[i].userId = userId /\ tasks[i].status = "pending"}
    IN  [tasks |-> [i \in 1 .. Len(tasks) |->
                       IF i \in ids THEN [tasks[i] EXCEPT !.status = "archived"]
                       ELSE tasks[i]],
         rowCount |-> OrElse(Cardinality(ids), 0)]

\* TaskRepository.archiveLowPriorityTasks: the table after the UPDATE and the
\* rowCount the driver reports
ArchiveLowPriorityTasks(userId, threshold) ==
    LET ids == TasksToArchive(userId, threshold)
    IN  [tasks |-> [i \in 1 .. Len(tasks) |->
                       IF i \in ids THEN [tasks[i] EXCEPT !.status = "archived"]
                       ELSE tasks[i]],
         rowCount |-> OrElse(Cardinality(ids), 0)]

\* the rows the WHERE clause of rescheduleTasksToTomorrow matches
TasksToReschedule(userId) ==
    {i \in 1 .. Len(tasks) : /\ tasks[i].userId = userId
                             /\ tasks[i].status = "pending"
                             /\ tasks[i].isFixed = FALSE}

RescheduleFixedTasksToo(userId) ==
    LET ids == {i \in 1 .. Len(tasks) :
                    tasks[i].userId = userId /\ tasks[i].status = "pending"}
    IN  [tasks |-> [i \in 1 .. Len(tasks) |->
                       IF i \in ids THEN [tasks[i] EXCEPT !.scheduledStartTime = Null]
                       ELSE tasks[i]],
         rowCount |-> OrElse(Cardinality(ids), 0)]

\* TaskRepository.rescheduleTasksToTomorrow: UPDATE tasks SET scheduled_start_time =
\* NULL on every matched row; rowCount counts the matched rows, cleared before or not
RescheduleTasksToTomorrow(userId) ==
    LET ids == TasksToReschedule(userId)
    IN  [tasks |-> [i \in 1 .. Len(tasks) |->
                       IF i \in ids THEN [tasks[i] EXCEPT !.scheduledStartTime = Null]
                       ELSE tasks[i]],
         rowCount |-> OrElse(Cardinality(ids), 0)]

BankruptcyOptions == {"HARD", "SOFT", "MANUAL"}

ExecuteBankruptcyManualReschedules(userId, option) ==
    LET archived == ArchiveLowPriorityTasks(userId, 5)
        moved == RescheduleTasksToTomorrow(userId)
    IN  CASE option = "HARD" ->
               [tasks |-> archived.tasks,
                message |-> [text |-> "Liquidacion Total: Se han archivado {count} tareas",
                             count |-> archived.rowCount],
                calls |-> <<[op |-> "archiveLowPriorityTasks", args |-> <<userId, 5>>]>>]
          [] option = "SOFT" ->
               [tasks |-> moved.tasks,
                message |-> [text |-> "Reajuste Suave: Se han movido {count} tareas",
                             count |-> moved.rowCount],
                calls |-> <<[op |-> "rescheduleTasksToTomorrow", args |-> <<userId>>]>>]
          [] OTHER ->
               [tasks |-> moved.tasks,
                message |-> [text |-> "Manual: Usa /done [id] o /archive [id]"],
                calls |-> <<[op |-> "rescheduleTasksToTomorrow", args |-> <<userId>>]>>]

\* executeBankruptcy(userId, option): the table it leaves, the message it returns
\* (the fixed text and the count spliced into it) and the repository calls it makes
ExecuteBankruptcyOutcome(userId, option) ==
    CASE option = "HARD" ->
           LET archived == ArchiveLowPriorityTasks(userId, 5)
           IN  [tasks |-> archived.tasks,
                message |-> [text |-> "Liquidacion Total: Se han archivado {count} tareas",
                             count |-> archived.rowCount],
                calls |-> <<[op |-> "archiveLowPriorityTasks", args |-> <<userId, 5>>]>>]
      [] option = "SOFT" ->
           LET moved == RescheduleTasksToTomorrow(userId)
           IN  [tasks |-> moved.tasks,
                message |-> [text |-> "Reajuste Suave: Se han movido {count} tareas",
                             count |-> moved.rowCount],
                calls |-> <<[op |-> "rescheduleTasksToTomorrow", args |-> <<userId>>]>>]
      [] option = "MANUAL" ->
           [tasks |-> tasks,
            message |-> [text |-> "Manual: Usa /done [id] o /archive [id]"],
            calls |-> <<>>]
      [] OTHER ->
           [tasks |-> tasks, message |-> [text |-> "Opcion desconocida."], calls |-> <<>>]

(***************************************************************************)
(* SpecBankruptcy: a store is built up, then the planner's operations run  *)
(* against it.  Each bankruptcy result keeps the table it found and the    *)
(* table it left; prev is the result of the request before it.             *)
(***************************************************************************)
BankruptcyMetaScores == {4, 5}
ScheduledStartTimes == {Null, StartOfClock + QuarterMs}

\* TaskRepository.create with a scheduled start: scheduled_start_time is
\* task.scheduledStartTime || null
CreateScheduledTask(userId, goalMetaScore, isFixed, scheduledStartTime) ==
    /\ ret = NoRet
    /\ Len(tasks) < MaxRows
    /\ users[userId] # NoUser
    /\ tasks' = Append(tasks,
                       [TaskRow(Len(tasks) + 1, userId, 30, goalMetaScore, isFixed, 3, 3)
                            EXCEPT !.scheduledStartTime = OrElse(scheduledStartTime, Null)])
    /\ UNCHANGED <<pendingTasks, handlers>>
    /\ UNCHANGED <<users, now, ret, prev, calls, input, userEnergy, sorted, cmp>>

ExecuteBankruptcy(userId, option) ==
    /\ LET out == ExecuteBankruptcyOutcome(userId, option)
       IN  /\ tasks' = out.tasks
           /\ calls' = out.calls
           /\ ret' = [kind |-> "bankruptcy", op |-> "executeBankruptcy", userId |-> userId,
                      option |-> option, message |-> out.message,
                      before |-> tasks, after |-> out.tasks]
    /\ prev' = ret
    /\ UNCHANGED <<pendingTasks, handlers>>
    /\ UNCHANGED <<users, now, input, userEnergy, sorted, cmp>>

\* every user registered, with a 15:00 work end
InitBankruptcy ==
    /\ Init
    /\ \A u \in UserIds : users[u] # NoUser /\ users[u].workEndTime = Str1500

NextBankruptcy ==
    \/ \E u \in UserIds, g \in BankruptcyMetaScores, f \in BOOLEAN, s \in ScheduledStartTimes :
           CreateScheduledTask(u, g, f, s)
    \/ \E id \in 1 .. MaxRows, u \in UserIds : ret = NoRet /\ MarkAsDone(id, u)
    \/ \E u \in UserIds, o \in BankruptcyOptions \cup {"UNKNOWN"} : ExecuteBankruptcy(u, o)
    \/ \E u \in UserIds : ret = NoRet /\ CalculateDailyLoad(u)
    \/ \E u \in UserIds : ret = NoRet /\ CheckOverload(u)
    \/ \E u \in UserIds :
           /\ users[u] # NoUser
           /\ \E perm \in Permutations(1 .. Len(PendingRows(u))) :
                  GenerateDailyPlan(u, users[u].currentEnergy, perm)

SpecBankruptcy == InitBankruptcy /\ [][NextBankruptcy]_vars

(***************************************************************************)
(* Properties of the bankruptcy resolver (SpecBankruptcy).                 *)
(***************************************************************************)
\* C13: executeBankruptcy(userId, HARD) calls the archive operation with (userId, 5),
\* sets to 'archived' exactly the user's pending tasks whose goal has metaScore < 5,
\* leaves every other task unchanged and returns a message with the number archived.
C13_HardArchivesLowPriority ==
    (ret.kind = "bankruptcy" /\ ret.option = "HARD") =>
        LET hit == {i \in 1 .. Len(ret.before) :
                        /\ ret.before[i].userId = ret.userId
                        /\ ret.before[i].status = "pending"
                        /\ ret.before[i].goalMetaScore <= 4}
        IN  /\ calls = <<[op |-> "archiveLowPriorityTasks", args |-> <<ret.userId, 5>>]>>
            /\ tasks = ret.after
            /\ Len(ret.after) = Len(ret.before)
            /\ \A i \in hit : ret.after[i] = [ret.before[i] EXCEPT !.status = "archived"]
            /\ \A i \in (1 .. Len(ret.before)) \ hit : ret.after[i] = ret.before[i]
            /\ ret.message.count = Cardinality(hit)

\* HARD has archived one task of the user and kept the user's pending task whose
\* goal scores 5
C13_Witness ==
    /\ ret.kind = "bankruptcy" /\ ret.option = "HARD"
    /\ ret.message.count = 1
    /\ \E i, j \in 1 .. Len(tasks) :
           /\ ret.before[i].status = "pending" /\ tasks[i].status = "archived"
           /\ tasks[i].goalMetaScore = 4
           /\ tasks[j].userId = ret.userId /\ tasks[j].goalMetaScore = 5
           /\ tasks[j].status = "pending"

\* C14: executeBankruptcy(userId, SOFT) clears scheduledStartTime of all the user's
\* pending non-fixed tasks and of no other task, changes no status, and returns a
\* message with the number of rows the update touched.
C14_SoftClearsNonFixed ==
    (ret.kind = "bankruptcy" /\ ret.option = "SOFT") =>
        LET hit == {i \in 1 .. Len(ret.before) :
                        /\ ret.before[i].userId = ret.userId
                        /\ ret.before[i].status = "pending"
                        /\ ~ret.before[i].isFixed}
        IN  /\ tasks = ret.after
            /\ Len(ret.after) = Len(ret.before)
            /\ \A i \in hit : ret.after[i] = [ret.before[i] EXCEPT !.scheduledStartTime = Null]
            /\ \A i \in (1 .. Len(ret.before)) \ hit : ret.after[i] = ret.before[i]
            /\ \A i \in 1 .. Len(ret.before) : ret.after[i].status = ret.before[i].status
            /\ ret.message.count = Cardinality(hit)

\* SOFT has cleared the start time of one task and kept the start time of a fixed
\* pending task of the same user
C14_Witness ==
    /\ ret.kind = "bankruptcy" /\ ret.option = "SOFT"
    /\ ret.message.count = 1
    /\ \E i, j \in 1 .. Len(tasks) :
           /\ ret.before[i].scheduledStartTime # Null /\ tasks[i].scheduledStartTime = Null
           /\ tasks[j].userId = ret.userId /\ tasks[j].isFixed
           /\ tasks[j].status = "pending" /\ tasks[j].scheduledStartTime # Null

\* C15: HARD (respectively SOFT) run a second time for the same user, nothing else
\* having changed in between, finds no eligible row: the second run reports 0.
C15_SecondRunReportsZero ==
    (/\ ret.kind = "bankruptcy" /\ prev.kind = "bankruptcy"
     /\ ret.option \in {"HARD", "SOFT"}
     /\ prev.option = ret.option /\ prev.userId = ret.userId
     /\ prev.after = ret.before)
        => ret.message.count = 0

\* C16: calculateDailyLoad, checkOverload, generateDailyPlan and
\* executeBankruptcy(MANUAL) leave the task store and the user store as they were.
C16_ReadOnlyOperations ==
    [][\/ (tasks' = tasks /\ users' = users)
       \/ ~(\E u \in UserIds :
                \/ CalculateDailyLoad(u)
                \/ CheckOverload(u)
                \/ \E e \in EnergyLevels, perm \in Permutations(1 .. Len(PendingRows(u))) :
                       GenerateDailyPlan(u, e, perm)
                \/ ExecuteBankruptcy(u, "MANUAL"))]_vars

\* MANUAL has returned its guidance to a user who has a pending, non-fixed task with
\* a scheduled start, which is still scheduled
C16_Witness ==
    /\ ret.kind = "bankruptcy" /\ ret.option = "MANUAL"
    /\ tasks = ret.before
    /\ \E i \in 1 .. Len(tasks) :
           /\ tasks[i].userId = ret.userId /\ tasks[i].status = "pending"
           /\ ~tasks[i].isFixed /\ tasks[i].scheduledStartTime # Null

(***************************************************************************)
(* Number arithmetic of the analytics: IEEE 754 binary64 division and      *)
(* multiplication, round to nearest with ties to even, and Math.round.     *)
(* A numeral is a sequence of 15-bit limbs, most significant first, <<>>   *)
(* being 0; a Number is (-1)^negative * mant * 2^exp with a 53-bit mant,   *)
(* or zero.                                                                *)
(***************************************************************************)
MantissaBits == 53
LimbBits == 15
LimbBase == 2 ^ LimbBits

RECURSIVE BigOf(_)
BigOf(n) == IF n = 0 THEN <<>> ELSE Append(BigOf(n \div LimbBase), n % LimbBase)

RECURSIVE ValueOf(_)
ValueOf(big) ==
    IF big = <<>> THEN 0
    ELSE LimbBase * ValueOf(SubSeq(big, 1, Len(big) - 1)) + big[Len(big)]

RECURSIVE BitLen(_)
BitLen(n) == IF n = 0 THEN 0 ELSE 1 + BitLen(n \div 2)

BitLength(big) == IF big = <<>> THEN 0 ELSE LimbBits * (Len(big) - 1) + BitLen(Head(big))

RECURSIVE StripZeros(_)
StripZeros(big) ==
    IF big # <<>> /\ Head(big) = 0 THEN StripZeros(Tail(big)) ELSE big

IsOdd(big) == big # <<>> /\ big[Len(big)] % 2 = 1

\* big * k for 0 <= k < LimbBase, from the last limb up with a carry
RECURSIVE TimesFrom(_, _, _, _, _)
TimesFrom(big, k, i, carry, acc) ==
    IF i = 0 THEN BigOf(carry) \o acc
    ELSE LET v == big[i] * k + carry
         IN  TimesFrom(big, k, i - 1, v \div LimbBase, <<v % LimbBase>> \o acc)

BigTimes(big, k) == StripZeros(TimesFrom(big, k, Len(big), 0, <<>>))

\* long division of big by n for 0 < n < LimbBase, from the first limb down
RECURSIVE DivideFrom(_, _, _, _, _)
DivideFrom(big, n, i, rem, acc) ==
    IF i > Len(big) THEN [quotient |-> StripZeros(acc), remainder |-> rem]
    ELSE LET r == LimbBase * rem + big[i]
         IN  DivideFrom(big, n, i + 1, r % n, Append(acc, r \div n))

BigDivide(big, n) == DivideFrom(big, n, 1, 0, <<>>)

RECURSIVE BigIncrement(_)
BigIncrement(big) ==
    IF big = <<>> THEN <<1>>
    ELSE IF big[Len(big)] < LimbBase - 1 THEN [big EXCEPT ![Len(big)] = @ + 1]
    ELSE Append(BigIncrement(SubSeq(big, 1, Len(big) - 1)), 0)

BigGreater(a, b) ==
    \/ Len(a) > Len(b)
    \/ /\ Len(a) = Len(b)
       /\ \E i \in 1 .. Len(a) : a[i] > b[i] /\ \A j \in 1 .. i - 1 : a[j] = b[j]

\* big * 2^s
ShiftLeft(big, s) ==
    IF big = <<>> THEN <<>>
    ELSE BigTimes(big, 2 ^ (s % LimbBits)) \o [i \in 1 .. s \div LimbBits |-> 0]

\* floor(big / 2^s), and whether a nonzero remainder was dropped
ShiftRight(big, s) ==
    LET keptLen == Len(big) - s \div LimbBits
        kept == IF keptLen <= 0 THEN <<>> ELSE SubSeq(big, 1, keptLen)
        d == BigDivide(kept, 2 ^ (s % LimbBits))
    IN  [quotient |-> d.quotient,
         inexact |-> \/ d.remainder # 0
                     \/ \E i \in 1 .. Len(big) : i > keptLen /\ big[i] # 0]

NumberZero == [negative |-> FALSE, mant |-> <<>>, exp |-> 0]

\* the Number nearest to big * 2^exp (plus a nonzero tail below the last bit if
\* sticky): the first 53 bits, rounded up when the rest is more than half a unit, or
\* exactly half and the 53rd bit is odd
RoundToNumber(negative, big, exp, sticky) ==
    LET drop == BitLength(big) - MantissaBits
    IN  IF big = <<>> THEN NumberZero
        ELSE IF drop <= 0
        THEN [negative |-> negative, mant |-> ShiftLeft(big, -drop), exp |-> exp + drop]
        ELSE LET g == ShiftRight(big, drop - 1)
                 kept == BigDivide(g.quotient, 2).quotient
                 up == IsOdd(g.quotient) /\ (sticky \/ g.inexact \/ IsOdd(kept))
                 m == IF up THEN BigIncrement(kept) ELSE kept
             IN  IF BitLength(m) > MantissaBits
                 THEN [negative |-> negative, mant |-> BigDivide(m, 2).quotient,
                       exp |-> exp + drop + 1]
                 ELSE [negative |-> negative, mant |-> m, exp |-> exp + drop]

\* a / b on an integer a and an integer b, 0 < b < LimbBase
Divide(a, b) ==
    LET shift == MantissaBits + 2 + BitLen(b)
        d == BigDivide(ShiftLeft(BigOf(Abs(a)), shift), b)
    IN  RoundToNumber(a < 0, d.quotient, -shift, d.remainder # 0)

\* x * k on a Number x and an integer k, 0 <= k < LimbBase
Times(x, k) ==
    IF x.mant = <<>> \/ k = 0 THEN NumberZero
    ELSE RoundToNumber(x.negative, BigTimes(x.mant, k), x.exp, FALSE)

MathFloor(x) ==
    LET g == ShiftRight(x.mant, -x.exp)
        whole == ValueOf(g.quotient)
    IN  IF x.negative THEN -(whole + (IF g.inexact THEN 1 ELSE 0)) ELSE whole

\* Math.round on a Number with a fraction part (exp < 0): the nearest integer, a
\* half going up
MathRound(x) ==
    LET g == ShiftRight(x.mant, (-x.exp) - 1)
        whole == ValueOf(BigDivide(g.quotient, 2).quotient)
        half == IsOdd(g.quotient)
    IN  IF x.mant = <<>> THEN 0
        ELSE IF x.negative THEN -(whole + (IF half /\ g.inexact THEN 1 ELSE 0))
        ELSE whole + (IF half THEN 1 ELSE 0)

\* d > x on an integer d and a Number x >= 0 with exp <= 0
IntegerGreaterThan(d, x) ==
    IF d <= 0 THEN FALSE
    ELSE IF x.mant = <<>> THEN TRUE
    ELSE BigGreater(ShiftLeft(BigOf(d), -x.exp), x.mant)

(***************************************************************************)
(* Analytics: AnalyticsService.calculateVelocity, calculateImpact and      *)
(* getWeeklyStats over TaskRepository.getCompletedTasks.                   *)
(***************************************************************************)
\* startDate.setDate(startDate.getDate() - 7) on startDate = new Date()
SevenDaysAgo(t) == t - 7 * MsPerDay

\* TaskRepository.getCompletedTasks on the table rows: the user's rows with status
\* 'done' and completed_at >= startDate, goalMetaScore being meta_score || 0.  The
\* sum and the counts taken of the rows do not depend on their order: table order is
\* used.
CompletedTasksIn(rows, userId, startDate) ==
    LET P(row) == /\ row.userId = userId
                  /\ row.status = "done"
                  /\ row.completedAt >= startDate
        found == SelectSeq(rows, P)
    IN  [i \in 1 .. Len(found) |->
            [found[i] EXCEPT !.goalMetaScore = OrElse(found[i].goalMetaScore, 0)]]

GetCompletedTasks(userId, startDate) == CompletedTasksIn(tasks, userId, startDate)

\* completedTasks.reduce((sum, t) => sum + (t.estimatedMinutes || 30), 0)
TotalMinutes(completedTasks) ==
    SumSeq([i \in 1 .. Len(completedTasks) |-> OrElse(completedTasks[i].estimatedMinutes, 30)])

\* completedTasks.filter(t => t.goalMetaScore >= 7).length
HighImpactCount(completedTasks) ==
    Cardinality({i \in 1 .. Len(completedTasks) : completedTasks[i].goalMetaScore >= 7})

\* calculateVelocity(userId) at time t
CalculateVelocityOutcome(userId, t) ==
    LET completedTasks == GetCompletedTasks(userId, SevenDaysAgo(t))
    IN  IF Len(completedTasks) = 0 THEN 0
        ELSE MathRound(Divide(TotalMinutes(completedTasks), 7))

\* calculateImpact(userId) at time t
CalculateImpactOutcome(userId, t) ==
    LET completedTasks == GetCompletedTasks(userId, SevenDaysAgo(t))
        totalTasks == Len(completedTasks)
    IN  IF totalTasks = 0 THEN 0
        ELSE MathRound(Times(Divide(HighImpactCount(completedTasks), totalTasks), 100))

\* the statistics getWeeklyStats derives from the completed tasks
WeeklyStats(completedTasks) ==
    LET totalTasks == Len(completedTasks)
    IN  [velocity |-> MathRound(Divide(TotalMinutes(completedTasks), 7)),
         impactScore |->
             IF totalTasks > 0
             THEN MathRound(Times(Divide(HighImpactCount(completedTasks), totalTasks), 100))
             ELSE 0,
         streak |-> 0]

\* getWeeklyStats(userId) at time t
GetWeeklyStatsOutcome(userId, t) == WeeklyStats(GetCompletedTasks(userId, SevenDaysAgo(t)))

(***************************************************************************)
(* SpecAnalytics: the analytics evaluated over a store of pending and      *)
(* completed tasks.  The stores drawn: every store of at most MaxRows rows *)
(* over the row attributes, every list of at most MaxLen tasks the user 1  *)
(* completed inside the window, and the stores of n completed tasks of     *)
(* which h have a high-impact goal, for n up to MaxCompleted.              *)
(***************************************************************************)
MaxCompleted == 40

AnalyticsNow == StartOfClock + 8 * MsPerDay

CompletedMinutes == {-30, Null, 30, 60, 90}
CompletedMetaScores == {5, 8}
\* completed_at of a row: not completed, at the start of the window, one
\* millisecond before it
Completions == {Null, SevenDaysAgo(AnalyticsNow), SevenDaysAgo(AnalyticsNow) - 1}

AnalyticsAttributes ==
    [userId : UserIds, estimatedMinutes : CompletedMinutes,
     goalMetaScore : CompletedMetaScores, completedAt : Completions]

\* a row as create, update and markAsDone leave it
StoredRow(id, a) ==
    [TaskRow(id, a.userId, a.estimatedMinutes, a.goalMetaScore, FALSE, 3, 3)
         EXCEPT !.status = IF a.completedAt = Null THEN "pending" ELSE "done",
                !.completedAt = a.completedAt]

CompletedInWindow(estimatedMinutes, goalMetaScore) ==
    [userId |-> 1, estimatedMinutes |-> estimatedMinutes,
     goalMetaScore |-> goalMetaScore, completedAt |-> SevenDaysAgo(AnalyticsNow)]

CalculateVelocity(userId) ==
    /\ ret' = [kind |-> "velocity", userId |-> userId, at |-> now,
               velocity |-> CalculateVelocityOutcome(userId, now)]
    /\ calls' = <<"getCompletedTasks">>
    /\ UNCHANGED <<pendingTasks, handlers>>
    /\ UNCHANGED <<users, tasks, now, prev, input, userEnergy, sorted, cmp>>

CalculateImpact(userId) ==
    /\ ret' = [kind |-> "impact", userId |-> userId, at |-> now,
               impactScore |-> CalculateImpactOutcome(userId, now)]
    /\ calls' = <<"getCompletedTasks">>
    /\ UNCHANGED <<pendingTasks, handlers>>
    /\ UNCHANGED <<users, tasks, now, prev, input, userEnergy, sorted, cmp>>

GetWeeklyStats(userId) ==
    /\ LET stats == GetWeeklyStatsOutcome(userId, now)
       IN  ret' = [kind |-> "stats", userId |-> userId, at |-> now,
                   velocity |-> stats.velocity, impactScore |-> stats.impactScore,
                   streak |-> stats.streak]
    /\ calls' = <<"getCompletedTasks">>
    /\ UNCHANGED <<pendingTasks, handlers>>
    /\ UNCHANGED <<users, tasks, now, prev, input, userEnergy, sorted, cmp>>

InitAnalytics ==
    /\ users = [u \in UserIds |-> [exists |-> TRUE, workEndTime |-> Str1500,
                                    currentEnergy |-> 3]]
    /\ \/ \E n \in 0 .. MaxRows : \E f \in [1 .. n -> AnalyticsAttributes] :
              tasks = [i \in 1 .. n |-> StoredRow(i, f[i])]
       \/ \E n \in 0 .. MaxLen :
              \E f \in [1 .. n -> CompletedMinutes \X CompletedMetaScores] :
                  tasks = [i \in 1 .. n |->
                              StoredRow(i, CompletedInWindow(f[i][1], f[i][2]))]
       \/ \E n \in 0 .. MaxCompleted : \E h \in 0 .. n :
              tasks = [i \in 1 .. n |->
                          StoredRow(i, CompletedInWindow(30, IF i <= h THEN 8 ELSE 5))]
    /\ now = AnalyticsNow
    /\ ret = NoRet
    /\ prev = NoStatus
    /\ calls = <<>>
    /\ IdlePrioritize
    /\ IdleBot

NextAnalytics ==
    \/ \E u \in UserIds : CalculateVelocity(u)
    \/ \E u \in UserIds : CalculateImpact(u)
    \/ \E u \in UserIds : GetWeeklyStats(u)

SpecAnalytics == InitAnalytics /\ [][NextAnalytics]_vars

(***************************************************************************)
(* Properties of the analytics (SpecAnalytics).                            *)
(***************************************************************************)
\* the rows of the task table the user completed in the 7 days up to t
CompletedInTrailingWeek(userId, t) ==
    LET P(row) == /\ row.userId = userId /\ row.status = "done"
                  /\ t - row.completedAt <= 7 * MsPerDay
    IN  SelectSeq(tasks, P)

C20_ImpactIsRoundedPercentage ==
    ret.kind \in {"impact", "stats"} =>
        LET rows == CompletedInTrailingWeek(ret.userId, ret.at)
            n == Len(rows)
            h == Cardinality({i \in 1 .. n : rows[i].goalMetaScore >= 7})
        IN  /\ ret.impactScore \in 0 .. 100
            /\ (n = 0 => ret.impactScore = 0)
            /\ (n > 0 => ret.impactScore = (200 * h + n) \div (2 * n))

(***************************************************************************)
(* Trigger policy: TelegramService.checkAndTriggerBankruptcy, run at the   *)
(* end of the plan command and of task creation.                           *)
(***************************************************************************)
\* the literal 1.1
OnePointOne == Divide(11, 10)

BankruptcyKeyboard == <<"HARD", "SOFT", "MANUAL">>

\* the messages the policy sends, given the load and the weekly statistics: one
\* message with the bankruptcy prompt and its keyboard if overloaded (the reality
\* check before the prompt if it fired), else the reality check alone if it fired
PolicyMessagesWithoutVelocityGuard(load, weeklyStats) ==
    LET reality == IntegerGreaterThan(load.demandMinutes,
                                      Times(OnePointOne, weeklyStats.velocity))
        msg == IF reality
               THEN <<[part |-> "realityCheck", planned |-> load.demandMinutes,
                       velocity |-> weeklyStats.velocity,
                       diff |-> load.demandMinutes - weeklyStats.velocity]>>
               ELSE <<>>
    IN  IF load.isOverloaded
        THEN <<[text |-> Append(msg, [part |-> "bankruptcyPrompt"]),
                keyboard |-> BankruptcyKeyboard]>>
        ELSE IF msg # <<>> THEN <<[text |-> msg, keyboard |-> <<>>]>>
        ELSE <<>>

PolicyMessagesPromptOnlyAlone(load, weeklyStats) ==
    LET reality == /\ weeklyStats.velocity > 0
                   /\ IntegerGreaterThan(load.demandMinutes,
                                         Times(OnePointOne, weeklyStats.velocity))
        msg == IF reality
               THEN <<[part |-> "realityCheck", planned |-> load.demandMinutes,
                       velocity |-> weeklyStats.velocity,
                       diff |-> load.demandMinutes - weeklyStats.velocity]>>
               ELSE <<>>
    IN  IF msg # <<>> THEN <<[text |-> msg, keyboard |-> <<>>]>>
        ELSE IF load.isOverloaded
        THEN <<[text |-> <<[part |-> "bankruptcyPrompt"]>>, keyboard |-> BankruptcyKeyboard]>>
        ELSE <<>>

PolicyMessages(load, weeklyStats) ==
    LET reality == /\ weeklyStats.velocity > 0
                   /\ IntegerGreaterThan(load.demandMinutes,
                                         Times(OnePointOne, weeklyStats.velocity))
        msg == IF reality
               THEN <<[part |-> "realityCheck", planned |-> load.demandMinutes,
                       velocity |-> weeklyStats.velocity,
                       diff |-> load.demandMinutes - weeklyStats.velocity]>>
               ELSE <<>>
    IN  IF load.isOverloaded
        THEN <<[text |-> Append(msg, [part |-> "bankruptcyPrompt"]),
                keyboard |-> BankruptcyKeyboard]>>
        ELSE IF msg # <<>> THEN <<[text |-> msg, keyboard |-> <<>>]>>
        ELSE <<>>

\* checkAndTriggerBankruptcy(chatId, userId) at time t for a registered user, the
\* task table being rows: calculateDailyLoad, getWeeklyStats, then the messages
CheckAndTriggerBankruptcyOutcome(rows, userId, t) ==
    LET load == LoadStatus(FindById(userId), PendingMinutesIn(rows, userId), t)
        weeklyStats == WeeklyStats(CompletedTasksIn(rows, userId, SevenDaysAgo(t)))
    IN  [load |-> load, weeklyStats |-> weeklyStats,
         sent |-> PolicyMessages(load, weeklyStats)]

(***************************************************************************)
(* SpecTrigger: the bot's handlers that end in the trigger policy, over a  *)
(* store in which tasks are created and completed while days pass.         *)
(***************************************************************************)
MaxDaySteps == 2
DayStepMs == 4 * MsPerDay

TriggerMinutes == {33, 210}

TickDays ==
    /\ now < StartOfClock + MaxDaySteps * DayStepMs
    /\ now' = now + DayStepMs
    /\ UNCHANGED <<pendingTasks, handlers>>
    /\ UNCHANGED <<users, tasks, ret, prev, calls, input, userEnergy, sorted, cmp>>

\* createTaskFromExtraction: TaskRepository.create from the extracted draft, the
\* confirmation, then the trigger policy on the store with the new task in it
CreateTaskFromExtraction(userId, estimatedMinutes) ==
    /\ Len(tasks) < MaxRows
    /\ users[userId] # NoUser
    /\ LET created == Append(tasks, TaskRow(Len(tasks) + 1, userId,
                                            OrElse(estimatedMinutes, 30), 5, FALSE, 3, 3))
           policy == CheckAndTriggerBankruptcyOutcome(created, userId, now)
       IN  /\ tasks' = created
           /\ ret' = [kind |-> "trigger", op |-> "createTaskFromExtraction",
                      userId |-> userId, at |-> now, replies |-> <<"Tarea guardada">>,
                      load |-> policy.load, weeklyStats |-> policy.weeklyStats,
                      sent |-> policy.sent]
    /\ calls' = <<"create", "calculateDailyLoad", "getWeeklyStats">>
    /\ UNCHANGED <<pendingTasks, handlers>>
    /\ UNCHANGED <<users, now, prev, input, userEnergy, sorted, cmp>>

\* handlePlanCommand: the plan for the user's stored energy, then the trigger policy
HandlePlanCommand(userId, perm) ==
    /\ users[userId] # NoUser
    /\ LET energy == OrElse(users[userId].currentEnergy, 3)
           plan == GenerateDailyPlanOutcome(userId, energy, perm, now)
           policy == CheckAndTriggerBankruptcyOutcome(tasks, userId, now)
       IN  /\ ret' = [kind |-> "trigger", op |-> "handlePlanCommand",
                      userId |-> userId, at |-> now,
                      replies |-> <<"Generando plan", plan.ret>>,
                      load |-> policy.load, weeklyStats |-> policy.weeklyStats,
                      sent |-> policy.sent]
           /\ input' = plan.fetched
           /\ sorted' = plan.sorted
           /\ userEnergy' = energy
    /\ calls' = <<"generateDailyPlan", "calculateDailyLoad", "getWeeklyStats">>
    /\ UNCHANGED <<pendingTasks, handlers>>
    /\ UNCHANGED <<users, tasks, now, prev, cmp>>

\* every user registered
InitTrigger ==
    /\ Init
    /\ \A u \in UserIds : users[u] # NoUser

NextTrigger ==
    \/ \E u \in UserIds, m \in TriggerMinutes : CreateTaskFromExtraction(u, m)
    \/ \E id \in 1 .. MaxRows, u \in UserIds : MarkAsDone(id, u)
    \/ TickDays
    \/ \E u \in UserIds :
           \E perm \in Permutations(1 .. Len(PendingRows(u))) : HandlePlanCommand(u, perm)

SpecTrigger == InitTrigger /\ [][NextTrigger]_vars

(***************************************************************************)
(* The trigger policy's messages.                                          *)
(***************************************************************************)
HasPart(sent, part) ==
    \E i \in 1 .. Len(sent) : \E j \in 1 .. Len(sent[i].text) : sent[i].text[j].part = part

RealityCheckSent(sent) == HasPart(sent, "realityCheck")

PromptSent(sent) == HasPart(sent, "bankruptcyPrompt")

\* what the store holds for the user once a handler has answered
DemandAfter(userId) == PendingMinutesIn(tasks', userId)

VelocityAfter(userId) ==
    WeeklyStats(CompletedTasksIn(tasks', userId, SevenDaysAgo(now'))).velocity

OverloadedAfter(userId) ==
    LoadStatus(users'[userId], PendingMinutesIn(tasks', userId), now').isOverloaded

HandlerAnswered == ret' # ret /\ ret'.kind = "trigger"

C18_PromptIffOverloaded ==
    [][\/ ~HandlerAnswered
       \/ LET sent == ret'.sent
              overloaded == OverloadedAfter(ret'.userId)
          IN  /\ PromptSent(sent) <=> overloaded
              /\ Len(sent) <= 1
              /\ \A i \in 1 .. Len(sent) :
                     /\ sent[i].text # <<>>
                     /\ sent[i].keyboard =
                            IF PromptSent(sent) THEN <<"HARD", "SOFT", "MANUAL">> ELSE <<>>
                     /\ sent[i].text[Len(sent[i].text)].part =
                            IF PromptSent(sent) THEN "bankruptcyPrompt" ELSE "realityCheck"
                     /\ Len(sent[i].text) <= 2
                     /\ Len(sent[i].text) = 2 => sent[i].text[1].part = "realityCheck"
              /\ (~overloaded /\ ~RealityCheckSent(sent)) => sent = <<>>]_vars

\* an overloaded user whose reality check fired has been sent both texts in one
\* message, the reality check first
C18_Witness ==
    /\ ret.kind = "trigger"
    /\ ret.load.isOverloaded
    /\ Len(ret.sent) = 1
    /\ Len(ret.sent[1].text) = 2
    /\ ret.sent[1].text[1].part = "realityCheck"
    /\ ret.sent[1].text[2].part = "bankruptcyPrompt"
    /\ ret.sent[1].keyboard = <<"HARD", "SOFT", "MANUAL">>

(***************************************************************************)
(* AnalyticsService.calculateStreak.  A Date is its instant in             *)
(* milliseconds; local days are the multiples of MsPerDay.                 *)
(***************************************************************************)
RECURSIVE SortDescending(_)
SortDescending(set) ==
    IF set = {} THEN <<>>
    ELSE LET top == CHOOSE x \in set : \A y \in set : y <= x
         IN  <<top>> \o SortDescending(set \ {top})

\* TaskRepository.getCompletionDates on the table rows:
\*   SELECT DISTINCT date_trunc('day', completed_at)::date ... WHERE user_id = $1
\*   AND status = 'done' AND completed_at IS NOT NULL ORDER BY completion_date DESC
\* each date read back as the Date of its midnight
CompletionDatesIn(rows, userId) ==
    SortDescending({StartOfDay(rows[i].completedAt) :
                       i \in {j \in 1 .. Len(rows) : /\ rows[j].userId = userId
                                                     /\ rows[j].status = "done"
                                                     /\ rows[j].completedAt # Null}})

GetCompletionDates(userId) == CompletionDatesIn(tasks, userId)

\* the second loop of calculateStreak from index i on: one more day while the
\* midnight of completionDates[i] is exactly one day before the previous one
RECURSIVE StreakFrom(_, _, _, _)
StreakFrom(completionDates, i, previousParamsDate, streak) ==
    IF i > Len(completionDates) THEN streak
    ELSE LET d == StartOfDay(completionDates[i])
             diffTime == previousParamsDate - d
         IN  IF diffTime = MsPerDay
             THEN StreakFrom(completionDates, i + 1, d, streak + 1)
             ELSE streak

CalculateStreakTodayOnly(completionDates, t) ==
    IF Len(completionDates) = 0 THEN 0
    ELSE LET today == StartOfDay(t)
             lastDate == StartOfDay(completionDates[1])
         IN  IF lastDate < today THEN 0
             ELSE StreakFrom(completionDates, 2, lastDate, 1)

\* calculateStreak at time t once getCompletionDates has answered completionDates.
\* The first loop of the method only computes a streak that `streak = 1` then
\* overwrites; the value returned is the one of the second loop.
CalculateStreakOf(completionDates, t) ==
    IF Len(completionDates) = 0 THEN 0
    ELSE LET today == StartOfDay(t)
             yesterday == today - MsPerDay
             lastDate == StartOfDay(completionDates[1])
         IN  IF lastDate < yesterday THEN 0
             ELSE StreakFrom(completionDates, 2, lastDate, 1)

(***************************************************************************)
(* SpecStreak: calculateStreak over stores of completed tasks, and over    *)
(* the lists of dates a task repository can hand to the service.           *)
(***************************************************************************)
StreakNow == StartOfClock + 8 * MsPerDay

\* instants of completion: today, earlier today, yesterday, earlier yesterday, two
\* days ago, four days ago
StreakInstants ==
    {StreakNow, StreakNow - 5 * MsPerHour, StreakNow - MsPerDay,
     StreakNow - MsPerDay - 5 * MsPerHour, StreakNow - 2 * MsPerDay,
     StreakNow - 4 * MsPerDay}

\* completed_at of a stored row
StreakCompletions ==
    {Null, StreakNow, StreakNow - 5 * MsPerHour, StreakNow - MsPerDay,
     StreakNow - 2 * MsPerDay}

StreakRow(id, userId, completedAt) ==
    [TaskRow(id, userId, 30, 5, FALSE, 3, 3)
         EXCEPT !.status = IF completedAt = Null THEN "pending" ELSE "done",
                !.completedAt = completedAt]

\* calculateStreak(userId) of the service built on TaskRepository
CalculateStreak(userId) ==
    /\ LET completionDates == GetCompletionDates(userId)
       IN  ret' = [kind |-> "streak", userId |-> userId, at |-> now,
                   completionDates |-> completionDates,
                   streak |-> CalculateStreakOf(completionDates, now)]
    /\ calls' = <<"getCompletionDates">>
    /\ UNCHANGED <<pendingTasks, handlers>>
    /\ UNCHANGED <<users, tasks, now, prev, input, userEnergy, sorted, cmp>>

\* calculateStreak(userId) of the service built on a repository whose
\* getCompletionDates resolves to completionDates (mockResolvedValue)
CalculateStreakOnDates(userId, completionDates) ==
    /\ ret' = [kind |-> "streak", userId |-> userId, at |-> now,
               completionDates |-> completionDates,
               streak |-> CalculateStreakOf(completionDates, now)]
    /\ calls' = <<"getCompletionDates (mock)">>
    /\ UNCHANGED <<pendingTasks, handlers>>
    /\ UNCHANGED <<users, tasks, now, prev, input, userEnergy, sorted, cmp>>

InitStreak ==
    /\ users = [u \in UserIds |-> [exists |-> TRUE, workEndTime |-> Str1500,
                                    currentEnergy |-> 3]]
    /\ \E n \in 0 .. MaxLen : \E f \in [1 .. n -> UserIds \X StreakCompletions] :
           tasks = [i \in 1 .. n |-> StreakRow(i, f[i][1], f[i][2])]
    /\ now \in {StreakNow, StreakNow + MsPerDay}
    /\ ret = NoRet
    /\ prev = NoStatus
    /\ calls = <<>>
    /\ IdlePrioritize
    /\ IdleBot

\* one request in a behaviour
NextStreak ==
    \/ ret = NoRet /\ \E u \in UserIds : CalculateStreak(u)
    \/ ret = NoRet /\ \E u \in UserIds : \E S \in SUBSET StreakInstants :
                          CalculateStreakOnDates(u, SortDescending(S))

SpecStreak == InitStreak /\ [][NextStreak]_vars

(***************************************************************************)
(* The streak in calendar days.                                            *)
(***************************************************************************)
DayOf(t) == t \div MsPerDay

OnDistinctDays(dates) ==
    \A i, j \in 1 .. Len(dates) : i < j => DayOf(dates[i]) > DayOf(dates[j])

\* 0 without a completion day or when the most recent one is older than yesterday,
\* else the number of days of the longest run of consecutive days the list starts
\* with
ConsecutiveDays(dates, t) ==
    IF Len(dates) = 0 \/ DayOf(dates[1]) < DayOf(t) - 1 THEN 0
    ELSE Cardinality({k \in 1 .. Len(dates) :
                         \A j \in 2 .. k : DayOf(dates[j]) = DayOf(dates[j - 1]) - 1})

\* C21: given distinct completion days in descending order, calculateStreak returns
\* 0 when there are none or the most recent day is older than yesterday, otherwise 1
\* plus the number of further days that are each exactly one calendar day before the
\* day counted before them
C21_StreakCountsConsecutiveDays ==
    (ret.kind = "streak" /\ OnDistinctDays(ret.completionDates))
        => ret.streak = ConsecutiveDays(ret.completionDates, ret.at)

\* the service on TaskRepository has answered 3 for a user who completed tasks
\* today, yesterday and the day before
C21_Witness ==
    /\ ret.kind = "streak"
    /\ calls = <<"getCompletionDates">>
    /\ Len(ret.completionDates) = 3
    /\ DayOf(ret.completionDates[1]) = DayOf(ret.at)
    /\ ret.streak = 3

\* the list with each calendar day listed once: the first entry of every day
RECURSIVE OncePerDay(_)
OncePerDay(dates) ==
    IF dates = <<>> THEN <<>>
    ELSE LET front == OncePerDay(SubSeq(dates, 1, Len(dates) - 1))
             last == dates[Len(dates)]
         IN  IF \E i \in 1 .. Len(dates) - 1 : DayOf(dates[i]) = DayOf(last)
             THEN front
             ELSE Append(front, last)

NoError == "none"
OwnershipError == "Not all tasks belong to user or some tasks do not exist"
QueryError == "query rejected"

\* the statements of the try block that are sent: all of them, or those up to the
\* one that rejects
Issued(body, faultAt) ==
    IF faultAt \in 1 .. Len(body) THEN SubSeq(body, 1, faultAt) ELSE body

Rejected(body, faultAt) == faultAt \in 1 .. Len(body)

TransactionLogReleaseOnSuccess(shouldManageTransaction, issued, failed) ==
    IF shouldManageTransaction
    THEN <<"connect">> \o issued
             \o (IF failed THEN <<"ROLLBACK">> ELSE <<"release">>)
    ELSE issued

\* what the method sends around the try block: pool.connect() before it, ROLLBACK
\* in the catch block, release() in the finally block, each only when the method
\* manages the transaction
TransactionLog(shouldManageTransaction, issued, failed) ==
    IF shouldManageTransaction
    THEN <<"connect">> \o issued
             \o (IF failed THEN <<"ROLLBACK">> ELSE <<>>) \o <<"release">>
    ELSE issued

\* the error the method throws: the one of the try block, unless the ROLLBACK of
\* the catch block rejects
Thrown(shouldManageTransaction, error, rollbackFails) ==
    IF error # NoError /\ shouldManageTransaction /\ rollbackFails
    THEN QueryError
    ELSE error

\* rows with id = ANY(taskIds) AND user_id = userId
Matching(rows, taskIds, userId) ==
    {i \in 1 .. Len(rows) :
        /\ \E k \in 1 .. Len(taskIds) : taskIds[k] = rows[i].id
        /\ rows[i].userId = userId}

\* UPDATE tasks SET status = 'done', completed_at = NOW()
MarkedDone(row) == [row EXCEPT !.status = "done", !.completedAt = now]

\* UPDATE tasks SET status = 'archived'
Archived(row) == [row EXCEPT !.status = "archived"]

\* the row the UPDATE of batchMarkAsDone ("done") or batchDelete ("archived") makes
\* of a matching row
Changed(statement, row) ==
    IF statement = "done" THEN MarkedDone(row) ELSE Archived(row)

\* batchMarkAsDone and batchDelete: BEGIN, the COUNT(*) of the matching rows, the
\* UPDATE of the matching rows if the count equals taskIds.length, COMMIT.
\* statement is the SET clause of the UPDATE.
BatchUpdateOutcome(rows, taskIds, userId, client, faultAt, rollbackFails, statement) ==
    LET shouldManageTransaction == ~client
        matching == Matching(rows, taskIds, userId)
        validCount == Cardinality(matching)
        valid == validCount = Len(taskIds)
        body == (IF shouldManageTransaction THEN <<"BEGIN">> ELSE <<>>)
                    \o <<"SELECT">>
                    \o (IF valid THEN <<"UPDATE">> ELSE <<>>)
                    \o (IF valid /\ shouldManageTransaction THEN <<"COMMIT">> ELSE <<>>)
        error == IF Rejected(body, faultAt) THEN QueryError
                 ELSE IF ~valid THEN OwnershipError
                 ELSE NoError
        updated == [i \in 1 .. Len(rows) |->
                       IF i \in matching THEN Changed(statement, rows[i]) ELSE rows[i]]
    IN  [log |-> TransactionLog(shouldManageTransaction, Issued(body, faultAt),
                                error # NoError),
         error |-> Thrown(shouldManageTransaction, error, rollbackFails),
         value |-> IF error = NoError THEN OrElse(validCount, 0) ELSE Null,
         expected |-> Len(taskIds),
         found |-> validCount,
         \* the table once the method has returned
         tasks |-> IF error = NoError /\ shouldManageTransaction THEN updated ELSE rows,
         \* the rows as the caller's open transaction sees them
         uncommitted |-> IF error = NoError /\ client THEN updated ELSE rows]

\* batchCreate: BEGIN, one INSERT ... RETURNING * per task, COMMIT.  An INSERT that
\* does not reject returns its row, so `result.rows.length === 0` does not happen.
BatchCreateOutcome(rows, newTasks, client, faultAt, rollbackFails) ==
    LET shouldManageTransaction == ~client
        body == (IF shouldManageTransaction THEN <<"BEGIN">> ELSE <<>>)
                    \o [k \in 1 .. Len(newTasks) |-> "INSERT"]
                    \o (IF shouldManageTransaction THEN <<"COMMIT">> ELSE <<>>)
        error == IF Rejected(body, faultAt) THEN QueryError ELSE NoError
        createdTasks ==
            [k \in 1 .. Len(newTasks) |->
                TaskRow(Len(rows) + k, newTasks[k].userId,
                        OrElse(newTasks[k].estimatedMinutes, 30), 5, FALSE, 3, 3)]
    IN  [log |-> TransactionLog(shouldManageTransaction, Issued(body, faultAt),
                                error # NoError),
         error |-> Thrown(shouldManageTransaction, error, rollbackFails),
         value |-> IF error = NoError THEN Len(createdTasks) ELSE Null,
         expected |-> Len(newTasks),
         found |-> Len(newTasks),
         tasks |-> IF error = NoError /\ shouldManageTransaction
                   THEN rows \o createdTasks ELSE rows,
         uncommitted |-> IF error = NoError /\ client THEN rows \o createdTasks ELSE rows]

BatchMarkAsDoneOutcome(rows, taskIds, userId, client, faultAt, rollbackFails) ==
    BatchUpdateOutcome(rows, taskIds, userId, client, faultAt, rollbackFails, "done")

BatchDeleteOutcome(rows, taskIds, userId, client, faultAt, rollbackFails) ==
    BatchUpdateOutcome(rows, taskIds, userId, client, faultAt, rollbackFails, "archived")

(***************************************************************************)
(* SpecBatch: one batch request on a store of created and completed tasks. *)
(***************************************************************************)
MaxIds == 2         \* length of the id list of a batch request

\* ids of a request: those of the rows the table can hold, and one of no row
RequestIds == 1 .. MaxRows + 1

IdLists == UNION {[1 .. n -> RequestIds] : n \in 1 .. MaxIds}

\* position of the rejected query: none, or one of BEGIN, SELECT/INSERT,
\* UPDATE/INSERT, COMMIT
FaultPositions == 0 .. 4

BatchReturn(op, userId, requested, client, faultAt, out) ==
    [kind |-> "batch", op |-> op, userId |-> userId, requested |-> requested,
     client |-> client, rejected |-> out.error = QueryError,
     error |-> out.error, value |-> out.value, before |-> tasks,
     uncommitted |-> out.uncommitted]

BatchCreate(userId, count, client, faultAt, rollbackFails) ==
    /\ Len(tasks) + count <= MaxRows
    /\ LET newTasks == [k \in 1 .. count |-> [userId |-> userId, estimatedMinutes |-> 30]]
           out == BatchCreateOutcome(tasks, newTasks, client, faultAt, rollbackFails)
       IN  /\ tasks' = out.tasks
           /\ ret' = BatchReturn("batchCreate", userId, [k \in 1 .. count |-> 0],
                                 client, faultAt, out)
           /\ calls' = out.log
    /\ UNCHANGED <<pendingTasks, handlers>>
    /\ UNCHANGED <<users, now, prev, input, userEnergy, sorted, cmp>>

BatchMarkAsDone(taskIds, userId, client, faultAt, rollbackFails) ==
    /\ LET out == BatchMarkAsDoneOutcome(tasks, taskIds, userId, client, faultAt,
                                         rollbackFails)
       IN  /\ tasks' = out.tasks
           /\ ret' = BatchReturn("batchMarkAsDone", userId, taskIds, client, faultAt, out)
           /\ calls' = out.log
    /\ UNCHANGED <<pendingTasks, handlers>>
    /\ UNCHANGED <<users, now, prev, input, userEnergy, sorted, cmp>>

BatchDelete(taskIds, userId, client, faultAt, rollbackFails) ==
    /\ LET out == BatchDeleteOutcome(tasks, taskIds, userId, client, faultAt,
                                     rollbackFails)
       IN  /\ tasks' = out.tasks
           /\ ret' = BatchReturn("batchDelete", userId, taskIds, client, faultAt, out)
           /\ calls' = out.log
    /\ UNCHANGED <<pendingTasks, handlers>>
    /\ UNCHANGED <<users, now, prev, input, userEnergy, sorted, cmp>>

InitBatch ==
    /\ Init
    /\ \A u \in UserIds : users[u] # NoUser /\ users[u].workEndTime = Str1500

\* tasks are created and completed, then one batch request is served
NextBatch ==
    \/ ret = NoRet /\ \E u \in UserIds : CreateTask(u, 30)
    \/ ret = NoRet /\ \E id \in 1 .. MaxRows, u \in UserIds : MarkAsDone(id, u)
    \/ ret = NoRet /\ \E u \in UserIds, n \in 1 .. MaxRows, c \in BOOLEAN,
                         f \in FaultPositions, r \in BOOLEAN : BatchCreate(u, n, c, f, r)
    \/ ret = NoRet /\ \E ids \in IdLists, u \in UserIds, c \in BOOLEAN,
                         f \in FaultPositions, r \in BOOLEAN :
                          BatchMarkAsDone(ids, u, c, f, r)
    \/ ret = NoRet /\ \E ids \in IdLists, u \in UserIds, c \in BOOLEAN,
                         f \in FaultPositions, r \in BOOLEAN :
                          BatchDelete(ids, u, c, f, r)

SpecBatch == InitBatch /\ [][NextBatch]_vars

(***************************************************************************)
(* Batch requests: ownership, atomicity and the transaction's statements.  *)
(***************************************************************************)
\* every id of the request is the id of a task of the user
ListedValid(r) ==
    \A k \in 1 .. Len(r.requested) :
        /\ r.requested[k] \in 1 .. Len(r.before)
        /\ r.before[r.requested[k]].userId = r.userId

ListedRows(r) == {r.requested[k] : k \in 1 .. Len(r.requested)}

StatusAfter(op) == IF op = "batchMarkAsDone" THEN "done" ELSE "archived"

IsBatchUpdate(r) == r.kind = "batch" /\ r.op \in {"batchMarkAsDone", "batchDelete"}

Occurrences(log, statement) == Cardinality({i \in 1 .. Len(log) : log[i] = statement})

\* C23: batch completion and deletion are all-or-nothing with ownership validated
\* before any mutation: an id that does not exist or is not the user's makes the
\* operation fail and no task changes; if every id is valid all listed tasks change
\* status together; batch creation creates all the requested tasks or none
C23_BatchAllOrNothing ==
    (ret.kind = "batch" /\ ~ret.client) =>
        /\ ret.error # NoError => tasks = ret.before
        /\ IsBatchUpdate(ret) =>
               /\ ~ListedValid(ret) => ret.error # NoError
               /\ (ListedValid(ret) /\ ~ret.rejected) =>
                      /\ ret.error = NoError
                      /\ \A id \in ListedRows(ret) : tasks[id].status = StatusAfter(ret.op)
               /\ \A id \in 1 .. Len(tasks) :
                      id \notin ListedRows(ret) => tasks[id] = ret.before[id]
        /\ ret.op = "batchCreate" =>
               \/ tasks = ret.before
               \/ /\ ret.error = NoError
                  /\ Len(tasks) = Len(ret.before) + Len(ret.requested)
                  /\ SubSeq(tasks, 1, Len(ret.before)) = ret.before

\* C24 as stated: an operation managing its own transaction sends BEGIN first, then
\* exactly one of COMMIT (on success) and ROLLBACK (on failure), and releases the
\* connection exactly once afterwards; with the caller's client it sends none of
\* BEGIN, COMMIT, ROLLBACK and does not release
C24_ExactlyOneOfCommitAndRollback ==
    ret.kind = "batch" =>
        IF ret.client
        THEN \A i \in 1 .. Len(calls) :
                 calls[i] \notin {"connect", "BEGIN", "COMMIT", "ROLLBACK", "release"}
        ELSE /\ Len(calls) >= 4
             /\ calls[1] = "connect"
             /\ calls[2] = "BEGIN"
             /\ Occurrences(calls, "BEGIN") = 1
             /\ Occurrences(calls, "COMMIT") + Occurrences(calls, "ROLLBACK") = 1
             /\ Occurrences(calls, "COMMIT") = 1 <=> ret.error = NoError
             /\ Occurrences(calls, "release") = 1
             /\ calls[Len(calls)] = "release"
             /\ calls[Len(calls) - 1] \in {"COMMIT", "ROLLBACK"}

\* C24 amended: an operation managing its own transaction sends BEGIN first; it
\* sends ROLLBACK, once and as its last statement, exactly when it fails, and COMMIT
\* at most once; it succeeds exactly when its last statement is COMMIT, and a COMMIT
\* that is rejected is followed by ROLLBACK; it releases the connection exactly once,
\* after the last statement, on both paths.  With the caller's client it sends none
\* of BEGIN, COMMIT, ROLLBACK and does not release.
C24_CommitOrRollbackThenRelease ==
    ret.kind = "batch" =>
        IF ret.client
        THEN \A i \in 1 .. Len(calls) :
                 calls[i] \notin {"connect", "BEGIN", "COMMIT", "ROLLBACK", "release"}
        ELSE /\ Len(calls) >= 4
             /\ calls[1] = "connect"
             /\ calls[2] = "BEGIN"
             /\ Occurrences(calls, "BEGIN") = 1
             /\ Occurrences(calls, "COMMIT") <= 1
             /\ Occurrences(calls, "ROLLBACK") = IF ret.error = NoError THEN 0 ELSE 1
             /\ calls[Len(calls) - 1] = "COMMIT" <=> ret.error = NoError
             /\ ret.error # NoError => calls[Len(calls) - 1] = "ROLLBACK"
             /\ Occurrences(calls, "release") = 1
             /\ calls[Len(calls)] = "release"

\* a batch completion whose COMMIT was rejected has sent ROLLBACK after it, released
\* the connection and left the table as it was
C24_Witness ==
    /\ ret.kind = "batch"
    /\ ret.op = "batchMarkAsDone"
    /\ calls = <<"connect", "BEGIN", "SELECT", "UPDATE", "COMMIT", "ROLLBACK", "release">>
    /\ ret.error = QueryError
    /\ tasks = ret.before

\* C30: batchMarkAsDone and batchDelete fail with the ownership error exactly when
\* some listed id does not exist or is not the user's; when every listed id is a task
\* of the user, a repeated id included, they succeed and return the number of tasks
\* updated
C30_OwnershipErrorIffInvalidId ==
    (IsBatchUpdate(ret) /\ ~ret.rejected) =>
        /\ ret.error = OwnershipError <=> ~ListedValid(ret)
        /\ ListedValid(ret) =>
               /\ ret.error = NoError
               /\ ret.value = Cardinality(ListedRows(ret))

(***************************************************************************)
(* The overload flag and the overload ratio of one LoadStatus.             *)
(***************************************************************************)
\* overloadRatio > 1, the infinite ratio being greater than 1
RatioAboveOne(r) == r.num > r.den

\* C26: in every LoadStatus calculateDailyLoad returns, isOverloaded is true exactly
\* when overloadRatio > 1 (the infinite ratio counting as greater than 1), also when
\* demand equals capacity and when capacity is 0
C26_OverloadedIffRatioAboveOne ==
    ret.kind = "load" =>
        (ret.status.isOverloaded <=> RatioAboveOne(ret.status.overloadRatio))

\* demand equal to a positive capacity: ratio 1, not overloaded
C26_Witness ==
    /\ ret.kind = "load"
    /\ ret.status.capacityMinutes > 0
    /\ ret.status.demandMinutes = ret.status.capacityMinutes
    /\ ret.status.overloadRatio = [num |-> 1, den |-> 1]
    /\ ~ret.status.isOverloaded

(***************************************************************************)
(* SpecDemand: one bankruptcy on a store whose tasks were created and      *)
(* edited, the clock passing before it.                                    *)
(***************************************************************************)
\* one bankruptcy in a behaviour
NextDemand ==
    \/ \E u \in UserIds, g \in BankruptcyMetaScores, f \in BOOLEAN :
           CreateScheduledTask(u, g, f, Null)
    \/ \E id \in 1 .. MaxRows, u \in UserIds, m \in UpdatedMinutesValues :
           ret = NoRet /\ UpdateTask(id, u, m)
    \/ ret = NoRet /\ TickQuarter
    \/ \E u \in UserIds, o \in BankruptcyOptions \cup {"UNKNOWN"} :
           ret = NoRet /\ ExecuteBankruptcy(u, o)

SpecDemand == InitBankruptcy /\ [][NextDemand]_vars

\* the minutes of the rows HARD leaves pending: the user's pending rows whose goal
\* has a meta score of 5 or more
RemainingAfterHard(rows, userId) ==
    LET P(row) == IsPendingOf(userId, row) /\ row.goalMetaScore >= 5
        remaining == SelectSeq(rows, P)
    IN  SumSeq([i \in 1 .. Len(remaining) |-> remaining[i].estimatedMinutes])

\* C27: no bankruptcy option increases a user's pending demand; SOFT, MANUAL and an
\* unrecognized option leave it unchanged, so a user overloaded before SOFT is still
\* overloaded at the same instant after it; after HARD the demand is the sum over the
\* pending tasks that remain
C27_BankruptcyNeverRaisesDemand ==
    ret.kind = "bankruptcy" =>
        /\ \A u \in UserIds :
               PendingMinutesIn(ret.after, u) <= PendingMinutesIn(ret.before, u)
        /\ LET before == PendingMinutesIn(ret.before, ret.userId)
               after == PendingMinutesIn(ret.after, ret.userId)
               user == users[ret.userId]
           IN  /\ ret.option # "HARD" => after = before
               /\ (ret.option = "SOFT" /\ LoadStatus(user, before, now).isOverloaded)
                      => LoadStatus(user, after, now).isOverloaded
               /\ ret.option = "HARD" => after = RemainingAfterHard(ret.before, ret.userId)

(***************************************************************************)
(* The plan holds every pending task once.                                 *)
(***************************************************************************)
\* task.estimatedMinutes, or 30 when it is missing or 0
EffectiveDuration(row) == IF row.estimatedMinutes = Null THEN 30 ELSE row.estimatedMinutes

\* s and t hold the same elements the same number of times
IsPermutationOf(s, t) ==
    /\ Len(s) = Len(t)
    /\ \E p \in Permutations(1 .. Len(s)) : \A i \in 1 .. Len(s) : s[i] = t[p[i]]

GoalIds == 1 .. MaxUsers
GoalOwner(goalId) == goalId

\* goalRepo.findByUserId
FindGoalsByUserId(userId) == {g \in GoalIds : GoalOwner(g) = userId}

\* the TaskExtraction llmService.extractTaskDetails returns for the message text
Extraction(text) ==
    [kind |-> "extraction", title |-> text, estimatedMinutes |-> 30, isFixed |-> FALSE]

\* a handler that has started: its event, its position, its local variables, and
\* when it read, wrote and deleted the user's entry of pendingTasks (0: never)
Handler(kind, userId, text, goalId) ==
    [kind |-> kind, userId |-> userId, text |-> text, goalId |-> goalId,
     pc |-> "start", draft |-> NoDraft, created |-> 0, outcome |-> "running",
     readAt |-> 0, storedAt |-> 0, deletedAt |-> 0, deleted |-> NoDraft]

\* accesses to pendingTasks so far
MapAccesses ==
    Cardinality({h \in 1 .. Len(handlers) : handlers[h].readAt # 0})
        + Cardinality({h \in 1 .. Len(handlers) : handlers[h].storedAt # 0})
        + Cardinality({h \in 1 .. Len(handlers) : handlers[h].deletedAt # 0})

SetDraftIfAbsent(map, userId, extraction) ==
    IF map[userId] = NoDraft THEN [map EXCEPT ![userId] = extraction] ELSE map

\* this.pendingTasks.set(user.id, extraction)
SetDraft(map, userId, extraction) == [map EXCEPT ![userId] = extraction]

\* this.pendingTasks.delete(userId)
DeleteDraft(map, userId) == [map EXCEPT ![userId] = NoDraft]

\* the row TaskRepository.create stores for createTaskFromExtraction, title included
ExtractedTaskRow(id, userId, data) ==
    LET row == TaskRow(id, userId, OrElse(data.estimatedMinutes, 30), 5,
                       data.isFixed, 3, 3)
    IN  [f \in DOMAIN row \cup {"title"} |-> IF f = "title" THEN data.title ELSE row[f]]

(***************************************************************************)
(* SpecDrafts: messages and goal selections of registered users, their     *)
(* handlers interleaving.                                                  *)
(***************************************************************************)
MaxEvents == 4      \* events the bot receives in a behaviour

\* bot.on('message') for a text that is not a command: the handler runs up to
\* `await this.llmService.extractTaskDetails(text, goals)`
ReceiveMessage(userId) ==
    /\ Len(handlers) < MaxEvents
    /\ users[userId] # NoUser
    /\ handlers' = Append(handlers,
                          [Handler("message", userId, Len(handlers) + 1, 0)
                               EXCEPT !.pc = "extracting"])
    /\ UNCHANGED <<pendingTasks, users, tasks, now, ret, prev, calls, input, userEnergy,
                   sorted, cmp>>

\* handleNaturalLanguage once the extraction has arrived, its goalName naming one of
\* the user's goals (confident) or none: createTaskFromExtraction, or the draft is
\* stored and the goals keyboard sent
ExtractionArrives(h, confident) ==
    /\ h \in 1 .. Len(handlers)
    /\ handlers[h].kind = "message"
    /\ handlers[h].pc = "extracting"
    /\ LET userId == handlers[h].userId
           extraction == Extraction(handlers[h].text)
       IN  IF confident /\ FindGoalsByUserId(userId) # {}
           THEN /\ Len(tasks) < MaxRows
                /\ LET created == Append(tasks,
                                         ExtractedTaskRow(Len(tasks) + 1, userId, extraction))
                       policy == CheckAndTriggerBankruptcyOutcome(created, userId, now)
                   IN  /\ tasks' = created
                       /\ ret' = [kind |-> "trigger", op |-> "createTaskFromExtraction",
                                  userId |-> userId, at |-> now,
                                  replies |-> <<"Tarea guardada">>,
                                  load |-> policy.load,
                                  weeklyStats |-> policy.weeklyStats,
                                  sent |-> policy.sent]
                /\ handlers' = [handlers EXCEPT ![h].pc = "done",
                                                ![h].created = Len(tasks) + 1,
                                                ![h].outcome = "created"]
                /\ UNCHANGED pendingTasks
           ELSE /\ pendingTasks' = SetDraft(pendingTasks, userId, extraction)
                /\ handlers' = [handlers EXCEPT ![h].pc = "done",
                                                ![h].draft = extraction,
                                                ![h].storedAt = MapAccesses + 1,
                                                ![h].outcome = "asked"]
                /\ UNCHANGED <<tasks, ret>>
    /\ UNCHANGED <<users, now, prev, calls, input, userEnergy, sorted, cmp>>

\* bot.on('callback_query') with data goal:<goalId>, up to the await of
\* handleGoalSelection: the draft is read; without one the session has expired
ReceiveGoalSelection(userId, goalId) ==
    /\ Len(handlers) < MaxEvents
    /\ users[userId] # NoUser
    /\ LET draft == pendingTasks[userId]
           handler == [Handler("callback_query", userId, 0, goalId)
                           EXCEPT !.draft = draft, !.readAt = MapAccesses + 1]
       IN  handlers' = Append(handlers,
                              IF draft = NoDraft
                              THEN [handler EXCEPT !.pc = "done", !.outcome = "expired"]
                              ELSE [handler EXCEPT !.pc = "findingGoals"])
    /\ UNCHANGED <<pendingTasks, users, tasks, now, ret, prev, calls, input, userEnergy,
                   sorted, cmp>>

\* handleGoalSelection once goalRepo.findByUserId has answered: if the goal is one
\* of the user's, createTaskFromExtraction starts with TaskRepository.create
GoalsArrive(h) ==
    /\ h \in 1 .. Len(handlers)
    /\ handlers[h].kind = "callback_query"
    /\ handlers[h].pc = "findingGoals"
    /\ IF handlers[h].goalId \in FindGoalsByUserId(handlers[h].userId)
       THEN /\ Len(tasks) < MaxRows
            /\ tasks' = Append(tasks, ExtractedTaskRow(Len(tasks) + 1, handlers[h].userId,
                                                       handlers[h].draft))
            /\ handlers' = [handlers EXCEPT ![h].pc = "creating",
                                            ![h].created = Len(tasks) + 1]
       ELSE /\ handlers' = [handlers EXCEPT ![h].pc = "done", ![h].outcome = "no goal"]
            /\ UNCHANGED tasks
    /\ UNCHANGED <<pendingTasks, users, now, ret, prev, calls, input, userEnergy, sorted,
                   cmp>>

\* handleGoalSelection once createTaskFromExtraction has resolved (confirmation and
\* trigger policy sent): the user's entry of pendingTasks is deleted
TaskCreated(h) ==
    /\ h \in 1 .. Len(handlers)
    /\ handlers[h].kind = "callback_query"
    /\ handlers[h].pc = "creating"
    /\ LET userId == handlers[h].userId
           policy == CheckAndTriggerBankruptcyOutcome(tasks, userId, now)
       IN  /\ ret' = [kind |-> "trigger", op |-> "createTaskFromExtraction",
                      userId |-> userId, at |-> now, replies |-> <<"Tarea guardada">>,
                      load |-> policy.load, weeklyStats |-> policy.weeklyStats,
                      sent |-> policy.sent]
           /\ pendingTasks' = DeleteDraft(pendingTasks, userId)
           /\ handlers' = [handlers EXCEPT ![h].pc = "done",
                                           ![h].outcome = "created",
                                           ![h].deletedAt = MapAccesses + 1,
                                           ![h].deleted = pendingTasks[userId]]
    /\ UNCHANGED <<users, tasks, now, prev, calls, input, userEnergy, sorted, cmp>>

InitDrafts ==
    /\ Init
    /\ \A u \in UserIds : users[u] # NoUser /\ users[u].workEndTime = Str1500

NextDrafts ==
    \/ \E u \in UserIds : ReceiveMessage(u)
    \/ \E h \in 1 .. MaxEvents, c \in BOOLEAN : ExtractionArrives(h, c)
    \/ \E u \in UserIds, g \in GoalIds : ReceiveGoalSelection(u, g)
    \/ \E h \in 1 .. MaxEvents : GoalsArrive(h)
    \/ \E h \in 1 .. MaxEvents : TaskCreated(h)

SpecDrafts == InitDrafts /\ [][NextDrafts]_vars

(***************************************************************************)
(* The draft store: one draft per user, the last one written.              *)
(***************************************************************************)
HandlersOf(userId) == {h \in 1 .. Len(handlers) : handlers[h].userId = userId}

Writes(userId) == {h \in HandlersOf(userId) : handlers[h].storedAt # 0}

Deletes(userId) == {h \in HandlersOf(userId) : handlers[h].deletedAt # 0}

\* the user's drafts written before the access numbered at
WritesBefore(userId, at) == {w \in Writes(userId) : handlers[w].storedAt < at}

\* the entry of the user as the accesses before the one numbered at left it: the
\* draft written last, unless a delete followed it
EntryBefore(userId, at) ==
    LET written == WritesBefore(userId, at)
    IN  IF written = {} THEN NoDraft
        ELSE LET w == CHOOSE x \in written :
                          \A y \in written : handlers[y].storedAt <= handlers[x].storedAt
             IN  IF \E d \in Deletes(userId) :
                        /\ handlers[d].deletedAt > handlers[w].storedAt
                        /\ handlers[d].deletedAt < at
                 THEN NoDraft
                 ELSE handlers[w].draft

\* C25: pendingTasks holds at most one draft per user, the one written last: a draft
\* written over an earlier one replaces it without any error, a goal selection that
\* follows creates its task from the draft written last, and the entry of a user
\* depends on the handlers of that user only
C25_LastDraftWins ==
    /\ \A u \in UserIds : pendingTasks[u] = EntryBefore(u, MapAccesses + 1)
    /\ \A h \in 1 .. Len(handlers) :
           /\ handlers[h].kind = "message" /\ handlers[h].pc = "done"
                  => handlers[h].outcome \in {"asked", "created"}
           /\ handlers[h].kind = "callback_query" =>
                  /\ handlers[h].draft = EntryBefore(handlers[h].userId, handlers[h].readAt)
                  /\ handlers[h].created # 0 =>
                         /\ tasks[handlers[h].created].title = handlers[h].draft.title
                         /\ tasks[handlers[h].created].userId = handlers[h].userId

\* two messages of user 1 reached the ask-for-goal branch, the first received being
\* written last; the goal selection that followed created its task from that draft,
\* no task was created from the other one, and the draft of user 2 is still stored
C25_Witness ==
    /\ Len(handlers) = 4
    /\ handlers[1].kind = "message" /\ handlers[1].userId = 1
    /\ handlers[2].kind = "message" /\ handlers[2].userId = 1
    /\ handlers[3].kind = "message" /\ handlers[3].userId = 2
    /\ handlers[1].storedAt > handlers[2].storedAt
    /\ handlers[2].storedAt > 0
    /\ handlers[3].storedAt > 0
    /\ handlers[4].kind = "callback_query" /\ handlers[4].userId = 1
    /\ handlers[4].readAt > handlers[1].storedAt
    /\ handlers[4].outcome = "created"
    /\ Len(tasks) = 1
    /\ tasks[1].title = handlers[1].text
    /\ pendingTasks[2] = handlers[3].draft
    /\ pendingTasks[1] = NoDraft

(***************************************************************************)
(* Tasks created from drafts.                                              *)
(***************************************************************************)
\* the goal selections that created a task
CreatedFromDraft ==
    {h \in 1 .. Len(handlers) :
        handlers[h].kind = "callback_query" /\ handlers[h].created # 0}

DraftsStored ==
    {h \in 1 .. Len(handlers) : handlers[h].kind = "message" /\ handlers[h].storedAt # 0}

\* C29: a stored draft yields at most one task: a goal selection creates a task only
\* from an existing draft of the user and for a goal of the user, the draft is
\* removed after the creation, the tasks created from drafts are never more than the
\* drafts stored, two goal selections never create a task from the same draft, and
\* the delete of a consumed draft removes that draft and no newer one
C29_DraftYieldsAtMostOneTask ==
    /\ \A h \in CreatedFromDraft :
           /\ handlers[h].draft # NoDraft
           /\ GoalOwner(handlers[h].goalId) = handlers[h].userId
           /\ handlers[h].deletedAt # 0 => handlers[h].deleted \in {handlers[h].draft, NoDraft}
    /\ Cardinality(CreatedFromDraft) <= Cardinality(DraftsStored)
    /\ \A g, h \in CreatedFromDraft : g # h => handlers[g].draft # handlers[h].draft

====
